---- MODULE Spec2Model ----
(***************************************************************************)
(* Chessica backend (jcai27/Chessica): the matchmaking queue of            *)
(* backend/app/api/multiplayer.py with its two backends (the in-memory     *)
(* dicts and the optional Redis client), and the session lifecycle of      *)
(* backend/app/api/sessions.py over backend/app/store.py.                  *)
(*                                                                         *)
(* The queue endpoints are plain `def` handlers, which FastAPI runs on a   *)
(* thread pool: every dict operation and every Redis command is one step   *)
(* of a thread, and steps of different requests interleave.  The code      *)
(* takes no lock and opens no Redis transaction.                           *)
(***************************************************************************)
EXTENDS Integers, Sequences, FiniteSets, TLC

\* ------------------------------------------------------------------ bounds
NumThreads == 2
\* requests per run: when requests run one after the other, and when they overlap
MaxRequests == 4
MaxOverlapRequests == 3

Threads == 1..NumThreads
Players == {"A", "B", "C"}
\* _bucket(time_control) = "<initial_ms>:<increment_ms>"
Buckets == {"600000:5000", "300000:0"}
Colors == {"auto", "white", "black"}
SessionIds == 1..MaxRequests

\* ------------------------------------------------------------ data shapes
Entry(p, b, c) == [player_id |-> p, bucket |-> b, color |-> c]
NoEntry == [player_id |-> "-", bucket |-> "-", color |-> "-"]

Payload(sid, c, opp) == [session_id |-> sid, player_color |-> c, opponent_id |-> opp]
NoPayload == [session_id |-> 0, player_color |-> "-", opponent_id |-> "-"]

Response(st, pl) == [status |-> st, session_id |-> pl.session_id,
                     player_color |-> pl.player_color, opponent_id |-> pl.opponent_id]
NoResponse == Response("-", NoPayload)

\* ------------------------------------------- the dict matchmaking_queue
\* A Python dict keeps insertion order; assigning to a key that is present
\* replaces the value and keeps the key's place.
QHas(q, p) == \E i \in 1..Len(q) : q[i].player_id = p

QPop(q, p) == SelectSeq(q, LAMBDA e : e.player_id # p)

QPut(q, e) ==
    IF QHas(q, e.player_id)
    THEN [i \in 1..Len(q) |-> IF q[i].player_id = e.player_id THEN e ELSE q[i]]
    ELSE Append(q, e)

QGet(q, p) == IF QHas(q, p) THEN q[CHOOSE i \in 1..Len(q) : q[i].player_id = p] ELSE NoEntry

\* Redis LREM key 0 value: every occurrence is removed.
LRem(l, p) == SelectSeq(l, LAMBDA x : x # p)

\* ------------------------------------------------------------- _pop_match
\* line 85: the Redis branch skips a candidate of the requester's own colour
RedisColorConflict(entry_color, preferred_color) ==
    /\ entry_color # ""
    /\ preferred_color # "auto"
    /\ entry_color = preferred_color
    /\ preferred_color # "auto"

\* line 98: the in-memory branch does the same
MemColorConflict(info_color, preferred_color) ==
    info_color # "auto" /\ preferred_color # "auto" /\ info_color = preferred_color

\* lines 95-101: the first entry of the snapshot that passes both tests
MemFirstMatch(q, player_id, bucket, preferred_color) ==
    LET ok == {i \in 1..Len(q) :
                 /\ ~(q[i].bucket # bucket \/ q[i].player_id = player_id)
                 /\ ~MemColorConflict(q[i].color, preferred_color)}
    IN IF ok = {} THEN NoEntry
       ELSE q[CHOOSE i \in ok : \A j \in ok : i <= j]

\* --------------------------------------------------------- _assign_colors
AssignColorsRequesterFirst(requester, preferred_color, opponent_id, opponent_color, coin) ==
    IF preferred_color = "white" \/ opponent_color = "white"
    THEN [white_id |-> requester, black_id |-> opponent_id, player_color |-> "white"]
    ELSE [white_id |-> opponent_id, black_id |-> requester, player_color |-> "black"]

AssignColors(requester, preferred_color, opponent_id, opponent_color, coin) ==
    IF preferred_color = "white" \/ opponent_color = "black"
    THEN [white_id |-> requester, black_id |-> opponent_id, player_color |-> "white"]
    ELSE IF preferred_color = "black" \/ opponent_color = "white"
    THEN [white_id |-> opponent_id, black_id |-> requester, player_color |-> "black"]
    ELSE IF coin
    THEN [white_id |-> requester, black_id |-> opponent_id, player_color |-> "white"]
    ELSE [white_id |-> opponent_id, black_id |-> requester, player_color |-> "black"]

\* store.create_multiplayer_session, lines 302-310: a side that asked for the
\* colour of the empty seat is moved to it, and with color "auto" and both
\* seats taken the sides are swapped on a coin flip.
StoreSides(white_id, black_id, color, coin) ==
    IF \/ color = "white" /\ white_id = "-" /\ black_id # "-"
       \/ color = "black" /\ black_id = "-" /\ white_id # "-"
       \/ color = "auto" /\ white_id # "-" /\ black_id # "-" /\ coin
    THEN [player_white_id |-> black_id, player_black_id |-> white_id]
    ELSE [player_white_id |-> white_id, player_black_id |-> black_id]

\* ------------------------------------------------------------------ state
VARIABLES
    useRedis,           \* _redis_client is set (settings.redis_url and the redis module)
    matchmaking_queue,  \* the dict matchmaking_queue, in insertion order
    matched_sessions,   \* the dict matched_sessions: player -> payload
    rList,              \* Redis lists  mm:bucket:<bucket>
    rEntry,             \* Redis hashes mm:queue:<player_id>
    rMatch,             \* Redis keys   mm:matched:<player_id>
    mmSessions,         \* multiplayer sessions created by join_queue, in order
    pc,                 \* each request thread's position
    loc,                \* each request thread's local variables
    nreq,               \* requests started so far
    overlap,            \* the run lets requests overlap (else one request at a time)
    seen,               \* players that have sent a request
    seenBuckets,        \* buckets that a join_queue request has named
    \* history of the run, read by the properties only
    enqCalls,           \* player -> join_queue calls started
    queuedAbs,          \* player -> the entry the player is queued with, if any
    notifAbs,           \* player -> the stored and not yet consumed notification
    delivered,          \* player -> session -> times queue_status returned it as matched
    leftQ               \* player -> leave_queue returned and no join_queue started since

mmVars == <<useRedis, matchmaking_queue, matched_sessions, rList, rEntry, rMatch,
            mmSessions, pc, loc, nreq, overlap, seen, seenBuckets, enqCalls, queuedAbs, notifAbs, delivered, leftQ>>

\* ---------------------------------------------------------- sessions: data
MaxSessions == 1
MaxOps == 5

SessIds == 1..MaxSessions
SessPlayers == {"A", "B"}
None == "-"

\* models.py line 42: player_rating = Column(Integer, default=1500)
DefaultRating == 1500

\* A position, as far as the handlers look at it: the side to move, the plies
\* played, and whether the game has ended in it ("dead": over by insufficient
\* material and the like, with moves still legal).
Fen(turn, plies, over) == [turn |-> turn, plies |-> plies, over |-> over]

DEFAULT_FEN == Fen("w", 0, "no")

\* Board.active_color
ActiveColor(board) == board.turn

IsCheckmate(board) == board.over = "checkmate"

\* a stalemate test that never finds one
NeverStalemate(board) == FALSE

IsStalemate(board) == board.over = "stalemate"

IsGameOver(board) == board.over # "no"

\* A legal move is named by the kind of position it leads to.
Ucis == {"quiet", "mate", "stale", "dead"}

\* what a request may send: also a move that is not legal, and a move with a
\* fifth character that is no promotion piece
UciInputs == Ucis \cup {"a1a1", "e7e8x"}

\* Board.legal_moves
LegalMoves(board) ==
    IF IsCheckmate(board) \/ IsStalemate(board) THEN {}
    ELSE IF board.over = "dead" THEN {"quiet"}
    ELSE Ucis

\* Board.apply_uci of a legal move
ApplyUci(board, uci) ==
    Fen(IF board.turn = "w" THEN "b" ELSE "w",
        board.plies + 1,
        CASE uci = "mate" -> "checkmate"
          [] uci = "stale" -> "stalemate"
          [] uci = "dead" -> "dead"
          [] OTHER -> board.over)

\* sessions.py lines 200-203: len(uci) > 4 and uci[4] not in q, r, b, n
BadPromotion(uci) == uci = "e7e8x"

\* an outcome that names the side to move the winner
DetermineOutcomeForMover(board, player_color) ==
    LET mover_is_player == (board.turn = "w") = (player_color = "white")
    IN IF board.over = "checkmate"
       THEN [result |-> "checkmate", winner |-> IF mover_is_player THEN "player" ELSE "engine"]
       ELSE IF board.over = "stalemate"
       THEN [result |-> "stalemate", winner |-> "draw"]
       ELSE [result |-> "resigned", winner |-> "draw"]

\* an analyzer that moves in every position
PickInAnyPosition(board) == {"quiet"}

\* engine.pick_engine_move: the moves it may return; none stands for ValueError
PickEngineMove(board) == IF IsGameOver(board) THEN {} ELSE LegalMoves(board)

\* sessions._determine_outcome
DetermineOutcome(board, player_color) ==
    LET player_is_white == player_color = "white"
        loser_is_white == board.turn = "w"
        loser_is_player == (loser_is_white /\ player_is_white) \/ (~loser_is_white /\ ~player_is_white)
    IN IF IsCheckmate(board)
       THEN [result |-> "checkmate", winner |-> IF loser_is_player THEN "engine" ELSE "player"]
       ELSE IF IsStalemate(board)
       THEN [result |-> "stalemate", winner |-> "draw"]
       ELSE [result |-> "resigned", winner |-> "draw"]

\* SessionRepository._resolve_colors
ResolveColors(requested) ==
    LET player_color == IF requested = "auto" THEN "white" ELSE requested
    IN [player_color |-> player_color,
        engine_color |-> IF player_color = "white" THEN "black" ELSE "white"]

\* engine.py line 81
CHECKMATE_CP == 10000

\* The score the analyzer reports for a position that is not decided, and the
\* material balance of a position: functions of the position, which stands
\* here for all positions with its side to move and its number of plies.
AnalyzerScore(board) == IF board.turn = "w" THEN 25 ELSE 0 - 40

MaterialBalance(board) == IF board.plies % 2 = 0 THEN 0 ELSE 100

\* time_control.initial_ms of the create requests
InitialMs == 300000

\* ClockState
ClockState(player_ms, engine_ms) == [player_ms |-> player_ms, engine_ms |-> engine_ms]

\* the clock a move request may carry
ClockInputs == {ClockState(InitialMs, InitialMs), ClockState(295000, 298000)}

\* a move that is charged no time
NoCharge(seconds) == 0

\* play_move line 243: int(total_seconds() * 1000)
SecondsToMs(seconds) == seconds * 1000

Max(a, b) == IF a > b THEN a ELSE b

\* an insight numbered from zero
BuildMoveInsightFromZero(uci, side, new_eval_cp, ply_index) ==
    [ply |-> ply_index - 1, side |-> side, uci |-> uci, eval_cp |-> new_eval_cp]

\* engine.build_move_insight, as far as the handlers and the replay read it
BuildMoveInsight(uci, side, new_eval_cp, ply_index) ==
    [ply |-> ply_index, side |-> side, uci |-> uci, eval_cp |-> new_eval_cp]

\* SessionRecord.from_model lines 201-205: the eval of the last logged move
LastEval(move_log) == IF move_log = <<>> THEN 0 ELSE move_log[Len(move_log)].eval_cp

\* the wall clock, in seconds: time.time(), datetime.now(timezone.utc)
VARIABLE now

\* a SessionModel row, and the SessionRecord made from it
SessionRecord(player_color, engine_color, white_id, black_id, is_multiplayer, updated_at) ==
    [status |-> "active", result |-> None, winner |-> None, fen |-> DEFAULT_FEN,
     initial_fen |-> DEFAULT_FEN, clocks |-> ClockState(InitialMs, InitialMs),
     move_log |-> <<>>, last_eval_cp |-> 0, updated_at |-> updated_at,
     player_color |-> player_color, engine_color |-> engine_color,
     is_multiplayer |-> is_multiplayer,
     player_white_id |-> white_id, player_black_id |-> black_id,
     player_id |-> None, player_rating |-> DefaultRating, player_rating_delta |-> 0,
     difficulty |-> "advanced", engine_depth |-> 3, engine_rating |-> 2000]

\* db.get(SessionModel, session_id) and cache.get(session_id) finding nothing
NoSession == [SessionRecord(None, None, None, None, FALSE, 0) EXCEPT !.status = "missing"]

\* a save that leaves the fen column as it is
SaveRowKeepFen(row, record) ==
    [row EXCEPT !.status = record.status,
                !.initial_fen = record.initial_fen, !.clocks = record.clocks,
                !.move_log = record.move_log, !.last_eval_cp = LastEval(record.move_log),
                !.player_white_id = record.player_white_id,
                !.player_black_id = record.player_black_id,
                !.is_multiplayer = record.is_multiplayer,
                !.result = record.result, !.winner = record.winner,
                !.updated_at = now]

\* SessionRepository.save: the row after the columns save writes are written
SaveRow(row, record) ==
    [row EXCEPT !.status = record.status, !.fen = record.fen,
                !.initial_fen = record.initial_fen, !.clocks = record.clocks,
                !.move_log = record.move_log, !.last_eval_cp = LastEval(record.move_log),
                !.player_white_id = record.player_white_id,
                !.player_black_id = record.player_black_id,
                !.is_multiplayer = record.is_multiplayer,
                !.result = record.result, !.winner = record.winner,
                !.updated_at = now]

\* The rating step of a decided game: the fixed-K formula at equal ratings.
RatingStep == 16

EloDelta(winner) ==
    CASE winner = "player" -> RatingStep
      [] winner = "engine" -> 0 - RatingStep
      [] OTHER -> 0

\* The stream sinks (websockets) and the requests that may be broadcasting.
NumSinks == 2
NumTasks == 2

Sinks == 1..NumSinks
TaskIds == 1..NumTasks

\* the part of an event payload that the properties read
EventPayload(uci, clocks, result, winner) ==
    [uci |-> uci, clocks |-> clocks, result |-> result, winner |-> winner]

\* a stream message: its type, its session, the plies logged when it was
\* made, and its payload
Msg(type, s, n, payload) == [type |-> type, sid |-> s, n |-> n, payload |-> payload]

NoMsg == Msg(None, 0, 0, EventPayload(None, None, None, None))

\* A request inside SessionStreamManager.broadcast: the message, the sinks of
\* the snapshot it has not sent to (it is inside the send to the first one;
\* ok: that send is going to return, and its frame is written), the snapshot,
\* the dead list, and the messages the handler broadcasts afterwards.
Task(s, msg, order, snap, rest) ==
    [sid |-> s, msg |-> msg, order |-> order, ok |-> TRUE, snap |-> snap, dead |-> {},
     rest |-> rest]

NoTask == Task(0, NoMsg, <<>>, {}, <<>>)

\* a broadcast that leaves the subscriber set as it is
KeepAll(conns, dead) == conns

\* SessionStreamManager.disconnect of every websocket of the dead list
Pruned(conns, dead) == conns \ dead

\* the orders in which a set may be iterated
Orders(S) ==
    {q \in [1..Cardinality(S) -> S] : \A i, j \in 1..Cardinality(S) : i # j => q[i] # q[j]}

NoDone == [msg |-> NoMsg, snap |-> {}, dead |-> {}, before |-> {}, after |-> {}]

\* Sessions: the rows of SessionModel and what session_cache holds of them.
VARIABLES
    db,                 \* session id -> the SessionModel row
    cache,              \* session id -> the session_cache entry
    ratings,            \* player id -> the player's rating
    nops,               \* session requests served so far
    lastResp,           \* the last session request and the HTTP status it got
    \* history of the run, read by the properties only
    applied,            \* session id -> rating deltas applied to the session
    endsGame,           \* the last request was a move of the player that decides the game
    \* the session streams
    connections,        \* session id -> the sinks subscribed to the session
    tasks,              \* the requests that are inside a broadcast
    received,           \* sink -> the messages sent to it, in order
    stalled,            \* the sinks that accept no send any more
    lastDone            \* history: the broadcast that returned last

sessVars == <<db, cache, ratings, nops, lastResp, applied, endsGame,
              connections, tasks, received, stalled, lastDone>>

\* ------------------------------------------------- the coach rate limiter
\* the last second of the wall clock that is looked at
MaxNow == 12
\* coach requests looked at
MaxCoachCalls == 4

\* settings.coach_rate_limit_window (seconds) and settings.coach_rate_limit_max;
\* 0 stands for a value that is not set
CoachSetting(window, max_calls) ==
    [coach_rate_limit_window |-> window, coach_rate_limit_max |-> max_calls]

DefaultSettings == CoachSetting(10, 2)

CoachSettings == {DefaultSettings, CoachSetting(3, 1), CoachSetting(0, 2)}

\* a limiter that forgets a timestamp as soon as it is as old as the window
ExpiredAtWindow(timestamps, cutoff) ==
    SelectSeq(timestamps, LAMBDA ts : ts > cutoff)

\* _enforce_coach_rate_limit: while timestamps and timestamps[0] < cutoff: pop(0)
RECURSIVE Expired(_, _)
Expired(timestamps, cutoff) ==
    IF timestamps # <<>> /\ Head(timestamps) < cutoff
    THEN Expired(Tail(timestamps), cutoff)
    ELSE timestamps

\* ------------------------------------------------ the analyzer subprocess
\* calls of the analyzer looked at
MaxGwCalls == 3

ENGINE_MIN_ELO == 1320
MaxElo == 2850
MaxSkill == 20

\* DIFFICULTY_SETTINGS: skill by difficulty
DIFFICULTY_SETTINGS ==
    [beginner |-> 1, intermediate |-> 5, advanced |-> 10, expert |-> 15,
     grandmaster |-> 20, custom |-> 15]

\* max(lo, min(hi, x))
Clamp(lo, x, hi) == Max(lo, IF x < hi THEN x ELSE hi)

\* the options of a subprocess that was spawned and never configured
Unconfigured == [skill |-> MaxSkill, limit_strength |-> FALSE, elo |-> 0]

\* engine.configure of pick_engine_move, evaluate_position and
\* analyze_position, with the profile of _difficulty_profile
StrengthOptions(difficulty, engine_rating) ==
    [skill |-> Clamp(0, DIFFICULTY_SETTINGS[IF difficulty \in DOMAIN DIFFICULTY_SETTINGS
                                              THEN difficulty ELSE "custom"], MaxSkill),
     limit_strength |-> TRUE,
     elo |-> Clamp(ENGINE_MIN_ELO, engine_rating, MaxElo)]

\* the options of the subprocess after the caller's engine.configure
Configure(conf, call) ==
    IF call.op = "_get_candidates"
    THEN [conf EXCEPT !.skill = MaxSkill, !.limit_strength = FALSE]
    ELSE StrengthOptions(call.difficulty, call.engine_rating)

NoThread == 0
NoEngine == [gen |-> 0, alive |-> FALSE, conf |-> Unconfigured]
IdleCall == [pc |-> "idle", op |-> "-", difficulty |-> "-", engine_rating |-> 0,
             respawned |-> FALSE, queued |-> FALSE]
NoRun == [op |-> "-", by |-> NoThread, outcome |-> "-", conf |-> Unconfigured,
          want |-> Unconfigured, respawned |-> FALSE]

\* ---------------------------------------------------------------------------
\* Engine settings of a new session (store.py) and score conversion (engine.py)
\* ---------------------------------------------------------------------------

\* a field of the create request that was left out (Optional[int] = None)
Absent == 0

engine_default_depth == 3

DIFFICULTY_PRESETS ==
    << [name |-> "beginner", rating |-> 1320, depth |-> 1],
       [name |-> "intermediate", rating |-> 1600, depth |-> 2],
       [name |-> "advanced", rating |-> 2000, depth |-> 3],
       [name |-> "expert", rating |-> 2300, depth |-> 4],
       [name |-> "grandmaster", rating |-> 2600, depth |-> 5] >>

Presets == {DIFFICULTY_PRESETS[i] : i \in DOMAIN DIFFICULTY_PRESETS}

\* DIFFICULTY_MAP: the preset of a name
DIFFICULTY_MAP(name) == CHOOSE preset \in Presets : preset.name = name

NoPreset == [name |-> None, rating |-> 0, depth |-> 0]

\* DEPTH_TO_PRESET.get(depth, default)
DEPTH_TO_PRESET(depth, default) ==
    IF \E preset \in Presets : preset.depth = depth
    THEN CHOOSE preset \in Presets : preset.depth = depth
    ELSE default

Abs(x) == IF x < 0 THEN 0 - x ELSE x

\* rating_to_preset: min() keeps the first of the presets at the least distance
rating_to_preset(rating) ==
    LET dist(i) == Abs(DIFFICULTY_PRESETS[i].rating - rating)
        first == CHOOSE i \in DOMAIN DIFFICULTY_PRESETS :
                    \A j \in DOMAIN DIFFICULTY_PRESETS :
                        dist(i) < dist(j) \/ (dist(i) = dist(j) /\ i <= j)
    IN DIFFICULTY_PRESETS[first]

depth_to_rating(depth) ==
    LET preset == DEPTH_TO_PRESET(depth, NoPreset)
    IN IF preset # NoPreset THEN preset.rating ELSE 600 + depth * 400

EngineSettings(depth, rating, difficulty) ==
    [engine_depth |-> depth, engine_rating |-> rating, difficulty |-> difficulty]

\* resolution that looks at the rating before the difficulty
ResolveByRatingFirst(difficulty, engine_rating, engine_depth) ==
    IF engine_rating # Absent
    THEN EngineSettings(rating_to_preset(engine_rating).depth, engine_rating,
                        rating_to_preset(engine_rating).name)
    ELSE EngineSettings(DIFFICULTY_PRESETS[3].depth, DIFFICULTY_PRESETS[3].rating,
                        DIFFICULTY_PRESETS[3].name)

resolve_engine_settings(difficulty, engine_rating, engine_depth) ==
    IF difficulty # None /\ \E preset \in Presets : preset.name = difficulty
    THEN LET preset == DIFFICULTY_MAP(difficulty)
         IN EngineSettings(preset.depth, preset.rating, difficulty)
    ELSE IF engine_rating # Absent
    THEN LET preset == rating_to_preset(engine_rating)
         IN EngineSettings(preset.depth, engine_rating, preset.name)
    ELSE IF engine_depth # Absent
    THEN LET preset == DEPTH_TO_PRESET(engine_depth, NoPreset)
         IN IF preset # NoPreset
            THEN EngineSettings(engine_depth, preset.rating, preset.name)
            ELSE EngineSettings(engine_depth, depth_to_rating(engine_depth), "custom")
    ELSE LET preset == DEPTH_TO_PRESET(engine_default_depth, DIFFICULTY_PRESETS[3])
         IN EngineSettings(preset.depth, preset.rating, preset.name)

\* a SessionCreateRequest, and the entry of a session that was not created by one
CreateRequest(color, difficulty, engine_rating, engine_depth) ==
    [color |-> color, difficulty |-> difficulty,
     engine_rating |-> engine_rating, engine_depth |-> engine_depth]
NoRequest == CreateRequest(None, None, Absent, Absent)

\* chess.engine scores: Cp(v), Mate(n), and MateGiven, the mate already on the board
Cp(v) == [kind |-> "cp", value |-> v, given |-> FALSE]
Mate(n) == [kind |-> "mate", value |-> n, given |-> FALSE]
MateGiven == [kind |-> "mate", value |-> 0, given |-> TRUE]

\* -score
Negated(score) ==
    IF score.kind = "cp" THEN Cp(0 - score.value)
    ELSE IF score.value # 0 THEN Mate(0 - score.value)
    ELSE IF score.given THEN Mate(0) ELSE MateGiven

\* PovScore(relative, turn); a score of None; the argument before any call
PovScore(relative, turn) == [relative |-> relative, turn |-> turn]
NoScore == PovScore([kind |-> "none", value |-> 0, given |-> FALSE], "white")
NoArg == PovScore([kind |-> "unset", value |-> 0, given |-> FALSE], "white")

\* the score as it was reported, whoever is to move
AsReported(score) == score.relative

\* score.white()
White(score) == IF score.turn = "white" THEN score.relative ELSE Negated(score.relative)

\* _score_to_cp
ScoreToCp(score) ==
    IF score = NoScore THEN 0
    ELSE LET pov == White(score)
         IN IF pov.kind = "mate"
            THEN IF pov.value # 0 /\ pov.value > 0 THEN CHECKMATE_CP ELSE 0 - CHECKMATE_CP
            ELSE IF pov.value # 0 THEN pov.value ELSE 0

\* SessionCache(ttl_seconds = 60)
CacheTtl == 60

\* a call of the repository: where it is, the method, the session and the
\* record it carries
RepoCall(step, op, sid, record) == [pc |-> step, op |-> op, sid |-> sid, record |-> record]
IdleRepo == RepoCall("idle", None, 0, NoSession)

\* a return of store.get_session: the record, whether the cache had it, the
\* time and the entry's expires_at
GetResult(n, sid, record, cached, at, expires_at) ==
    [n |-> n, sid |-> sid, record |-> record, cached |-> cached, at |-> at,
     expires_at |-> expires_at]
NoGet == GetResult(0, 0, NoSession, FALSE, 0, 0)

VARIABLES
    settings,           \* the settings the process was started with
    coach_rate_usage,   \* session id -> the timestamps of the admitted coach calls
    ENGINE_LOCK,        \* the thread that holds ENGINE_LOCK
    ENGINE,             \* the subprocess ENGINE refers to
    gw,                 \* thread -> where it is in its call of the analyzer
    \* history of the run, read by the properties only
    coachCalls,         \* session id -> the coach calls of the session: time and status
    gwCalls,            \* analyzer calls started so far
    spawned,            \* subprocesses spawned so far
    instances,          \* the subprocesses that were spawned and not shut down
    gwLast,             \* the analyzer call that returned or raised last
    lastPlayer,         \* who sent the request served last: the player_id of a move
                        \* request, the color of the player who resigns
    loaded,             \* session id -> the record a move request has loaded and not yet saved
    created,            \* session id -> the request create_session was called with
    arg,                \* the arguments a helper function was called with last
    out,                \* the value that call returned
    repo,               \* thread -> where it is in its call of the repository
    expires,            \* session id -> expires_at of the entry in SessionCache._memory
    lastGet             \* what store.get_session returned last

limVars == <<settings, coach_rate_usage, coachCalls>>

procVars == <<now, limVars, ENGINE_LOCK, ENGINE, gw, gwCalls, spawned, instances, gwLast>>

cacheVars == <<repo, expires, lastGet>>

callVars == <<created, arg, out, cacheVars>>

svcVars == <<procVars, lastPlayer, loaded, callVars>>

ProcInit(configured) ==
    /\ settings \in configured
    /\ now = 0
    /\ coach_rate_usage = [s \in SessIds |-> <<>>]
    /\ coachCalls = [s \in SessIds |-> <<>>]
    /\ ENGINE_LOCK = NoThread
    /\ ENGINE = NoEngine
    /\ gw = [t \in Threads |-> IdleCall]
    /\ gwCalls = 0
    /\ spawned = 0
    /\ instances = {}
    /\ gwLast = NoRun
    /\ lastPlayer = None
    /\ loaded = [s \in SessIds |-> NoSession]
    /\ created = [s \in SessIds |-> NoRequest]
    /\ repo = [t \in Threads |-> IdleRepo]
    /\ expires = [s \in SessIds |-> 0]
    /\ lastGet = NoGet

SvcInit(configured) == ProcInit(configured) /\ arg = NoArg /\ out = 0

vars == <<mmVars, sessVars, svcVars>>

IdleLoc ==
    [op |-> "-", player |-> "-", bucket |-> "-", color |-> "-",
     cands |-> <<>>, i |-> 0, match |-> NoEntry, redis_entry |-> NoEntry,
     entry |-> NoEntry, sid |-> 0, player_color |-> "-",
     resp |-> NoResponse,
     \* what the history said at the step that decided the answer
     g_opp_queued |-> FALSE, g_notif |-> FALSE, g_queued |-> FALSE]

MMInit ==
    /\ useRedis \in BOOLEAN
    /\ matchmaking_queue = <<>>
    /\ matched_sessions = [p \in Players |-> NoPayload]
    /\ rList = [b \in Buckets |-> <<>>]
    /\ rEntry = [p \in Players |-> NoEntry]
    /\ rMatch = [p \in Players |-> NoPayload]
    /\ mmSessions = <<>>
    /\ pc = [t \in Threads |-> "idle"]
    /\ loc = [t \in Threads |-> IdleLoc]
    /\ nreq = 0
    /\ overlap \in BOOLEAN
    /\ seen = {}
    /\ seenBuckets = {}
    /\ enqCalls = [p \in Players |-> 0]
    /\ queuedAbs = [p \in Players |-> NoEntry]
    /\ notifAbs = [p \in Players |-> NoPayload]
    /\ delivered = [p \in Players |-> [s \in SessionIds |-> 0]]
    /\ leftQ = [p \in Players |-> FALSE]

SessInit ==
    /\ db = [s \in SessIds |-> NoSession]
    /\ cache = [s \in SessIds |-> NoSession]
    /\ ratings = [p \in SessPlayers |-> DefaultRating]
    /\ nops = 0
    /\ lastResp = [op |-> None, sid |-> 0, code |-> 0, analyzer |-> 0, events |-> <<>>,
                   engine_move |-> None, result |-> None, winner |-> None]
    /\ applied = [s \in SessIds |-> 0]
    /\ endsGame = FALSE
    /\ connections = [s \in SessIds |-> {}]
    /\ tasks = [t \in TaskIds |-> NoTask]
    /\ received = [k \in Sinks |-> <<>>]
    /\ stalled = {}
    /\ lastDone = NoDone

Init == MMInit /\ SessInit /\ SvcInit({DefaultSettings})

\* Players, buckets and threads are interchangeable: a request comes from a
\* player that has sent one before or from the first player that has not (and
\* likewise names a bucket), and it is taken by the first idle thread.
\* Requests overlap only in the runs that allow it, and a player waits for the
\* answer to one request before sending the next.
PlayerOrder == <<"A", "B", "C">>

BucketOrder == <<"600000:5000", "300000:0">>

MayName(b) ==
    \/ b \in seenBuckets
    \/ \E i \in 1..Len(BucketOrder) :
          /\ BucketOrder[i] = b
          /\ \A j \in 1..(i - 1) : BucketOrder[j] \in seenBuckets

MayRequest(p) ==
    \/ p \in seen
    \/ \E i \in 1..Len(PlayerOrder) :
          /\ PlayerOrder[i] = p
          /\ \A j \in 1..(i - 1) : PlayerOrder[j] \in seen

\* the thread is in the pool: it has served nothing yet, or has sent its response
Free(t) == pc[t] \in {"idle", "done"}

Accept(t, p) ==
    /\ Free(t)
    /\ \A u \in Threads : u < t => ~Free(u)
    /\ overlap \/ \A u \in Threads : Free(u)
    /\ \A u \in Threads : ~Free(u) => loc[u].player # p
    /\ nreq < (IF overlap THEN MaxOverlapRequests ELSE MaxRequests)
    /\ MayRequest(p)
    /\ nreq' = nreq + 1
    /\ seen' = seen \cup {p}
    /\ UNCHANGED overlap
    /\ UNCHANGED <<sessVars, svcVars>>

Goto(t, label) == pc' = [pc EXCEPT ![t] = label]

SetLoc(t, l) == loc' = [loc EXCEPT ![t] = l]

\* ------------------------------------------------------------- join_queue
\* POST /multiplayer/queue: a thread picks up the request.
JoinStart(t, p, b, c) ==
    /\ Accept(t, p)
    /\ MayName(b)
    /\ seenBuckets' = seenBuckets \cup {b}
    /\ SetLoc(t, [IdleLoc EXCEPT !.op = "join", !.player = p, !.bucket = b, !.color = c])
    /\ Goto(t, IF useRedis THEN "pop_lrange" ELSE "pop_scan")
    /\ enqCalls' = [enqCalls EXCEPT ![p] = @ + 1]
    /\ leftQ' = [leftQ EXCEPT ![p] = FALSE]
    /\ UNCHANGED <<useRedis, matchmaking_queue, matched_sessions, rList, rEntry, rMatch,
                   mmSessions, queuedAbs, notifAbs, delivered>>

\* lines 79-81: the next candidate of the LRANGE result that is not the requester
NextCand(cands, from, player_id) ==
    LET js == {j \in from..Len(cands) : cands[j] # player_id}
    IN IF js = {} THEN 0 ELSE CHOOSE j \in js : \A k \in js : j <= k

\* line 78: candidates = LRANGE mm:bucket:<bucket> 0 -1
PopLRange(t) ==
    /\ pc[t] = "pop_lrange"
    /\ LET cands == rList[loc[t].bucket]
           j == NextCand(cands, 1, loc[t].player)
       IN /\ SetLoc(t, [loc[t] EXCEPT !.cands = cands, !.i = j])
          /\ Goto(t, IF j = 0 THEN "pop_scan" ELSE "pop_hgetall")
    /\ UNCHANGED <<useRedis, matchmaking_queue, matched_sessions, rList, rEntry, rMatch,
                   mmSessions, nreq, overlap, seen, seenBuckets, enqCalls, queuedAbs, notifAbs, delivered, leftQ>>
    /\ UNCHANGED <<sessVars, svcVars>>

\* lines 82-86: HGETALL mm:queue:<candidate>; a missing hash or a colour
\* conflict moves on to the next candidate, and past the last one to line 95.
PopHGetAll(t) ==
    /\ pc[t] = "pop_hgetall"
    /\ LET l == loc[t]
           cand == l.cands[l.i]
           entry == rEntry[cand]
           skip == entry = NoEntry \/ RedisColorConflict(entry.color, l.color)
           j == NextCand(l.cands, l.i + 1, l.player)
       IN IF skip
          THEN /\ SetLoc(t, [l EXCEPT !.i = j])
               /\ Goto(t, IF j = 0 THEN "pop_scan" ELSE "pop_hgetall")
          ELSE /\ SetLoc(t, [l EXCEPT !.redis_entry = entry,
                                      !.g_opp_queued = /\ queuedAbs[cand] # NoEntry
                                                       /\ queuedAbs[cand].bucket = l.bucket])
               /\ Goto(t, "pop_lrem")
    /\ UNCHANGED <<useRedis, matchmaking_queue, matched_sessions, rList, rEntry, rMatch,
                   mmSessions, nreq, overlap, seen, seenBuckets, enqCalls, queuedAbs, notifAbs, delivered, leftQ>>
    /\ UNCHANGED <<sessVars, svcVars>>

\* line 87: LREM mm:bucket:<bucket> 0 <candidate>
PopLRem(t) ==
    /\ pc[t] = "pop_lrem"
    /\ rList' = [rList EXCEPT ![loc[t].bucket] = LRem(@, loc[t].cands[loc[t].i])]
    /\ Goto(t, "pop_delete")
    /\ UNCHANGED <<useRedis, matchmaking_queue, matched_sessions, rEntry, rMatch,
                   mmSessions, loc, nreq, overlap, seen, seenBuckets, enqCalls, queuedAbs, notifAbs, delivered, leftQ>>
    /\ UNCHANGED <<sessVars, svcVars>>

\* lines 88-94: DEL mm:queue:<candidate>, and the match is returned with the
\* requester's bucket and the colour of the hash that was read
PopDelete(t) ==
    /\ pc[t] = "pop_delete"
    /\ LET l == loc[t]
           cand == l.cands[l.i]
       IN /\ rEntry' = [rEntry EXCEPT ![cand] = NoEntry]
          /\ queuedAbs' = [queuedAbs EXCEPT ![cand] = NoEntry]
          /\ SetLoc(t, [l EXCEPT !.match = Entry(cand, l.bucket, l.redis_entry.color)])
    /\ Goto(t, "create")
    /\ UNCHANGED <<useRedis, matchmaking_queue, matched_sessions, rList, rMatch,
                   mmSessions, nreq, overlap, seen, seenBuckets, enqCalls, notifAbs, delivered, leftQ>>
    /\ UNCHANGED <<sessVars, svcVars>>

\* lines 95-99: list(matchmaking_queue.items()) is one snapshot, and the loop
\* over it is local to the thread.  This is also where the Redis branch
\* arrives when none of its candidates was taken.
PopScan(t) ==
    /\ pc[t] = "pop_scan"
    /\ LET l == loc[t]
           info == MemFirstMatch(matchmaking_queue, l.player, l.bucket, l.color)
       IN IF info = NoEntry
          THEN /\ SetLoc(t, [l EXCEPT !.entry = Entry(l.player, l.bucket, l.color)])
               /\ Goto(t, IF useRedis THEN "enq_hset" ELSE "enq_mem")
          ELSE /\ SetLoc(t, [l EXCEPT !.match = info,
                                      !.g_opp_queued = /\ queuedAbs[info.player_id] # NoEntry
                                                       /\ queuedAbs[info.player_id].bucket = l.bucket])
               /\ Goto(t, "pop_mempop")
    /\ UNCHANGED <<useRedis, matchmaking_queue, matched_sessions, rList, rEntry, rMatch,
                   mmSessions, nreq, overlap, seen, seenBuckets, enqCalls, queuedAbs, notifAbs, delivered, leftQ>>
    /\ UNCHANGED <<sessVars, svcVars>>

\* line 100: matchmaking_queue.pop(other_id, None): no error when the key is gone
PopMemPop(t) ==
    /\ pc[t] = "pop_mempop"
    /\ matchmaking_queue' = QPop(matchmaking_queue, loc[t].match.player_id)
    /\ queuedAbs' = [queuedAbs EXCEPT ![loc[t].match.player_id] = NoEntry]
    /\ Goto(t, "create")
    /\ UNCHANGED <<useRedis, matched_sessions, rList, rEntry, rMatch,
                   mmSessions, loc, nreq, overlap, seen, seenBuckets, enqCalls, notifAbs, delivered, leftQ>>
    /\ UNCHANGED <<sessVars, svcVars>>

\* line 142: "white" if player_color == "white" else "black"
RequesterColor(player_color) == IF player_color = "white" THEN "white" ELSE "black"

\* line 148: "black" if player_color == "white" else "white"
OpponentColor(player_color) == IF player_color = "white" THEN "black" ELSE "white"

\* lines 139-150
RequesterPayload(l) == Payload(l.sid, RequesterColor(l.player_color), l.match.player_id)

OpponentPayload(l) == Payload(l.sid, OpponentColor(l.player_color), l.player)

\* lines 129-138: _assign_colors, which flips its coin only when both sides
\* are "auto", then store.create_multiplayer_session with color="auto", which
\* flips its own.
JoinCreate(t) ==
    /\ pc[t] = "create"
    /\ \E coin \in (IF loc[t].color = "auto" /\ loc[t].match.color = "auto"
                     THEN BOOLEAN ELSE {FALSE}),
          store_coin \in BOOLEAN :
         LET l == loc[t]
             a == AssignColors(l.player, l.color, l.match.player_id, l.match.color, coin)
             sides == StoreSides(a.white_id, a.black_id, "auto", store_coin)
             sid == Len(mmSessions) + 1
         IN /\ mmSessions' = Append(mmSessions,
                  [player_white_id |-> sides.player_white_id,
                   player_black_id |-> sides.player_black_id,
                   requester |-> l.player, opponent |-> l.match.player_id,
                   req_pref |-> l.color, opp_pref |-> l.match.color,
                   white_id |-> a.white_id, black_id |-> a.black_id,
                   req_color |-> RequesterColor(a.player_color),
                   opp_color |-> OpponentColor(a.player_color),
                   coin |-> coin,
                   opp_queued |-> l.g_opp_queued])
            /\ SetLoc(t, [l EXCEPT !.sid = sid, !.player_color = a.player_color])
    /\ Goto(t, "notify_req")
    /\ UNCHANGED <<useRedis, matchmaking_queue, matched_sessions, rList, rEntry, rMatch,
                   nreq, overlap, seen, seenBuckets, enqCalls, queuedAbs, notifAbs, delivered, leftQ>>
    /\ UNCHANGED <<sessVars, svcVars>>

\* line 151
NotifyReq(t) ==
    /\ pc[t] = "notify_req"
    /\ matched_sessions' = [matched_sessions EXCEPT ![loc[t].player] = RequesterPayload(loc[t])]
    /\ notifAbs' = [notifAbs EXCEPT ![loc[t].player] = RequesterPayload(loc[t])]
    /\ Goto(t, "notify_opp")
    /\ UNCHANGED <<useRedis, matchmaking_queue, rList, rEntry, rMatch,
                   mmSessions, loc, nreq, overlap, seen, seenBuckets, enqCalls, queuedAbs, delivered, leftQ>>
    /\ UNCHANGED <<sessVars, svcVars>>

\* line 152, and without Redis the return of line 156
NotifyOpp(t) ==
    /\ pc[t] = "notify_opp"
    /\ matched_sessions' = [matched_sessions EXCEPT ![loc[t].match.player_id] = OpponentPayload(loc[t])]
    /\ notifAbs' = [notifAbs EXCEPT ![loc[t].match.player_id] = OpponentPayload(loc[t])]
    /\ IF useRedis
       THEN Goto(t, "setex_req") /\ UNCHANGED loc
       ELSE /\ Goto(t, "done")
            /\ SetLoc(t, [loc[t] EXCEPT !.resp = Response("matched", RequesterPayload(loc[t]))])
    /\ UNCHANGED <<useRedis, matchmaking_queue, rList, rEntry, rMatch,
                   mmSessions, nreq, overlap, seen, seenBuckets, enqCalls, queuedAbs, delivered, leftQ>>
    /\ UNCHANGED <<sessVars, svcVars>>

\* line 154: SETEX mm:matched:<requester>
SetexReq(t) ==
    /\ pc[t] = "setex_req"
    /\ rMatch' = [rMatch EXCEPT ![loc[t].player] = RequesterPayload(loc[t])]
    /\ Goto(t, "setex_opp")
    /\ UNCHANGED <<useRedis, matchmaking_queue, matched_sessions, rList, rEntry,
                   mmSessions, loc, nreq, overlap, seen, seenBuckets, enqCalls, queuedAbs, notifAbs, delivered, leftQ>>
    /\ UNCHANGED <<sessVars, svcVars>>

\* lines 155-156: SETEX mm:matched:<opponent>, return matched
SetexOpp(t) ==
    /\ pc[t] = "setex_opp"
    /\ rMatch' = [rMatch EXCEPT ![loc[t].match.player_id] = OpponentPayload(loc[t])]
    /\ SetLoc(t, [loc[t] EXCEPT !.resp = Response("matched", RequesterPayload(loc[t]))])
    /\ Goto(t, "done")
    /\ UNCHANGED <<useRedis, matchmaking_queue, matched_sessions, rList, rEntry,
                   mmSessions, nreq, overlap, seen, seenBuckets, enqCalls, queuedAbs, notifAbs, delivered, leftQ>>
    /\ UNCHANGED <<sessVars, svcVars>>

\* lines 165-174: HSET mm:queue:<player_id> (and its EXPIRE)
EnqHSet(t) ==
    /\ pc[t] = "enq_hset"
    /\ rEntry' = [rEntry EXCEPT ![loc[t].player] = loc[t].entry]
    /\ queuedAbs' = [queuedAbs EXCEPT ![loc[t].player] = loc[t].entry]
    /\ Goto(t, "enq_rpush")
    /\ UNCHANGED <<useRedis, matchmaking_queue, matched_sessions, rList, rMatch,
                   mmSessions, loc, nreq, overlap, seen, seenBuckets, enqCalls, notifAbs, delivered, leftQ>>
    /\ UNCHANGED <<sessVars, svcVars>>

\* line 175: RPUSH mm:bucket:<bucket> <player_id>
EnqRPush(t) ==
    /\ pc[t] = "enq_rpush"
    /\ rList' = [rList EXCEPT ![loc[t].bucket] = Append(@, loc[t].player)]
    /\ Goto(t, "enq_mem")
    /\ UNCHANGED <<useRedis, matchmaking_queue, matched_sessions, rEntry, rMatch,
                   mmSessions, loc, nreq, overlap, seen, seenBuckets, enqCalls, queuedAbs, notifAbs, delivered, leftQ>>
    /\ UNCHANGED <<sessVars, svcVars>>

\* lines 176-177: matchmaking_queue[player_id] = entry, return queued
EnqMem(t) ==
    /\ pc[t] = "enq_mem"
    /\ matchmaking_queue' = QPut(matchmaking_queue, loc[t].entry)
    /\ queuedAbs' = [queuedAbs EXCEPT ![loc[t].player] = loc[t].entry]
    /\ SetLoc(t, [loc[t] EXCEPT !.resp = Response("queued", NoPayload)])
    /\ Goto(t, "done")
    /\ UNCHANGED <<useRedis, matched_sessions, rList, rEntry, rMatch,
                   mmSessions, nreq, overlap, seen, seenBuckets, enqCalls, notifAbs, delivered, leftQ>>
    /\ UNCHANGED <<sessVars, svcVars>>

\* ------------------------------------------------------------ leave_queue
\* DELETE /multiplayer/queue/{player_id}
LeaveStart(t, p) ==
    /\ Accept(t, p)
    /\ UNCHANGED seenBuckets
    /\ SetLoc(t, [IdleLoc EXCEPT !.op = "leave", !.player = p])
    /\ Goto(t, "leave_pop")
    /\ UNCHANGED <<useRedis, matchmaking_queue, matched_sessions, rList, rEntry, rMatch,
                   mmSessions, enqCalls, queuedAbs, notifAbs, delivered, leftQ>>

\* line 182: entry = matchmaking_queue.pop(player_id, None)
LeavePop(t) ==
    /\ pc[t] = "leave_pop"
    /\ SetLoc(t, [loc[t] EXCEPT !.entry = QGet(matchmaking_queue, loc[t].player)])
    /\ matchmaking_queue' = QPop(matchmaking_queue, loc[t].player)
    /\ queuedAbs' = IF useRedis THEN queuedAbs
                    ELSE [queuedAbs EXCEPT ![loc[t].player] = NoEntry]
    /\ Goto(t, "leave_matched")
    /\ UNCHANGED <<useRedis, matched_sessions, rList, rEntry, rMatch,
                   mmSessions, nreq, overlap, seen, seenBuckets, enqCalls, notifAbs, delivered, leftQ>>
    /\ UNCHANGED <<sessVars, svcVars>>

\* line 183: matched_sessions.pop(player_id, None); without Redis, line 191
LeaveMatched(t) ==
    /\ pc[t] = "leave_matched"
    /\ matched_sessions' = [matched_sessions EXCEPT ![loc[t].player] = NoPayload]
    /\ IF useRedis
       THEN /\ Goto(t, "leave_hgetall")
            /\ UNCHANGED <<loc, notifAbs, leftQ>>
       ELSE /\ Goto(t, "done")
            /\ SetLoc(t, [loc[t] EXCEPT !.resp = Response("none", NoPayload)])
            /\ notifAbs' = [notifAbs EXCEPT ![loc[t].player] = NoPayload]
            /\ leftQ' = [leftQ EXCEPT ![loc[t].player] = TRUE]
    /\ UNCHANGED <<useRedis, matchmaking_queue, rList, rEntry, rMatch,
                   mmSessions, nreq, overlap, seen, seenBuckets, enqCalls, queuedAbs, delivered>>
    /\ UNCHANGED <<sessVars, svcVars>>

\* line 185: redis_entry = HGETALL mm:queue:<player_id>
LeaveHGetAll(t) ==
    /\ pc[t] = "leave_hgetall"
    /\ SetLoc(t, [loc[t] EXCEPT !.redis_entry = rEntry[loc[t].player]])
    /\ Goto(t, "leave_del_entry")
    /\ UNCHANGED <<useRedis, matchmaking_queue, matched_sessions, rList, rEntry, rMatch,
                   mmSessions, nreq, overlap, seen, seenBuckets, enqCalls, queuedAbs, notifAbs, delivered, leftQ>>
    /\ UNCHANGED <<sessVars, svcVars>>

\* line 187: DEL mm:queue:<player_id>
LeaveDelEntry(t) ==
    /\ pc[t] = "leave_del_entry"
    /\ rEntry' = [rEntry EXCEPT ![loc[t].player] = NoEntry]
    /\ queuedAbs' = [queuedAbs EXCEPT ![loc[t].player] = NoEntry]
    /\ Goto(t, "leave_del_match")
    /\ UNCHANGED <<useRedis, matchmaking_queue, matched_sessions, rList, rMatch,
                   mmSessions, loc, nreq, overlap, seen, seenBuckets, enqCalls, notifAbs, delivered, leftQ>>
    /\ UNCHANGED <<sessVars, svcVars>>

\* line 188: DEL mm:matched:<player_id>
LeaveDelMatch(t) ==
    /\ pc[t] = "leave_del_match"
    /\ rMatch' = [rMatch EXCEPT ![loc[t].player] = NoPayload]
    /\ notifAbs' = [notifAbs EXCEPT ![loc[t].player] = NoPayload]
    /\ Goto(t, "leave_lrem")
    /\ UNCHANGED <<useRedis, matchmaking_queue, matched_sessions, rList, rEntry,
                   mmSessions, loc, nreq, overlap, seen, seenBuckets, enqCalls, queuedAbs, delivered, leftQ>>
    /\ UNCHANGED <<sessVars, svcVars>>

\* line 186: the bucket of the Redis hash, else of the popped dict entry
LeaveBucket(redis_entry, entry) ==
    IF redis_entry # NoEntry THEN redis_entry.bucket ELSE entry.bucket

\* lines 189-191: LREM mm:bucket:<bucket> 0 <player_id> when a bucket is known
LeaveLRem(t) ==
    /\ pc[t] = "leave_lrem"
    /\ LET bucket == LeaveBucket(loc[t].redis_entry, loc[t].entry)
       IN rList' = IF bucket \in Buckets
                   THEN [rList EXCEPT ![bucket] = LRem(@, loc[t].player)]
                   ELSE rList
    /\ SetLoc(t, [loc[t] EXCEPT !.resp = Response("none", NoPayload)])
    /\ leftQ' = [leftQ EXCEPT ![loc[t].player] = TRUE]
    /\ Goto(t, "done")
    /\ UNCHANGED <<useRedis, matchmaking_queue, matched_sessions, rEntry, rMatch,
                   mmSessions, nreq, overlap, seen, seenBuckets, enqCalls, queuedAbs, notifAbs, delivered>>
    /\ UNCHANGED <<sessVars, svcVars>>

\* ----------------------------------------------------------- queue_status
\* GET /multiplayer/queue/{player_id}
StatusStart(t, p) ==
    /\ Accept(t, p)
    /\ UNCHANGED seenBuckets
    /\ SetLoc(t, [IdleLoc EXCEPT !.op = "status", !.player = p])
    /\ Goto(t, IF useRedis THEN "st_getdel" ELSE "st_check")
    /\ UNCHANGED <<useRedis, matchmaking_queue, matched_sessions, rList, rEntry, rMatch,
                   mmSessions, enqCalls, queuedAbs, notifAbs, delivered, leftQ>>

Deliver(p, payload) ==
    /\ delivered' = [delivered EXCEPT ![p][payload.session_id] = @ + 1]
    /\ notifAbs' = [notifAbs EXCEPT ![p] = NoPayload]

\* lines 197-201: GETDEL mm:matched:<player_id>, returned when present
StatusGetDel(t) ==
    /\ pc[t] = "st_getdel"
    /\ LET p == loc[t].player
           match_raw == rMatch[p]
       IN /\ rMatch' = [rMatch EXCEPT ![p] = NoPayload]
          /\ IF match_raw # NoPayload
             THEN /\ SetLoc(t, [loc[t] EXCEPT !.resp = Response("matched", match_raw),
                                              !.g_notif = notifAbs[p] # NoPayload])
                  /\ Deliver(p, match_raw)
                  /\ Goto(t, "done")
             ELSE /\ Goto(t, "st_check")
                  /\ UNCHANGED <<loc, delivered, notifAbs>>
    /\ UNCHANGED <<useRedis, matchmaking_queue, matched_sessions, rList, rEntry,
                   mmSessions, nreq, overlap, seen, seenBuckets, enqCalls, queuedAbs, leftQ>>
    /\ UNCHANGED <<sessVars, svcVars>>

\* line 204: if player_id in matched_sessions
StatusCheck(t) ==
    /\ pc[t] = "st_check"
    /\ Goto(t, IF matched_sessions[loc[t].player] # NoPayload THEN "st_pop" ELSE "st_queue")
    /\ SetLoc(t, [loc[t] EXCEPT !.g_notif = notifAbs[loc[t].player] # NoPayload])
    /\ UNCHANGED <<useRedis, matchmaking_queue, matched_sessions, rList, rEntry, rMatch,
                   mmSessions, nreq, overlap, seen, seenBuckets, enqCalls, queuedAbs, notifAbs, delivered, leftQ>>
    /\ UNCHANGED <<sessVars, svcVars>>

\* lines 205-206: matched_sessions.pop(player_id) raises KeyError when another
\* request removed the key since line 204
StatusPop(t) ==
    /\ pc[t] = "st_pop"
    /\ LET p == loc[t].player
           payload == matched_sessions[p]
       IN IF payload = NoPayload
          THEN /\ SetLoc(t, [loc[t] EXCEPT !.resp = Response("error", NoPayload)])
               /\ UNCHANGED <<matched_sessions, delivered, notifAbs>>
          ELSE /\ matched_sessions' = [matched_sessions EXCEPT ![p] = NoPayload]
               /\ SetLoc(t, [loc[t] EXCEPT !.resp = Response("matched", payload),
                                           !.g_notif = notifAbs[p] # NoPayload])
               /\ Deliver(p, payload)
    /\ Goto(t, "done")
    /\ UNCHANGED <<useRedis, matchmaking_queue, rList, rEntry, rMatch,
                   mmSessions, nreq, overlap, seen, seenBuckets, enqCalls, queuedAbs, leftQ>>
    /\ UNCHANGED <<sessVars, svcVars>>

\* lines 207-209: queued when the dict holds the player, else none
StatusQueue(t) ==
    /\ pc[t] = "st_queue"
    /\ LET p == loc[t].player
       IN SetLoc(t, [loc[t] EXCEPT
              !.resp = Response(IF QHas(matchmaking_queue, p) THEN "queued" ELSE "none", NoPayload),
              !.g_queued = queuedAbs[p] # NoEntry])
    /\ Goto(t, "done")
    /\ UNCHANGED <<useRedis, matchmaking_queue, matched_sessions, rList, rEntry, rMatch,
                   mmSessions, nreq, overlap, seen, seenBuckets, enqCalls, queuedAbs, notifAbs, delivered, leftQ>>
    /\ UNCHANGED <<sessVars, svcVars>>

Next ==
    \E t \in Threads :
        \/ \E p \in Players, b \in Buckets, c \in Colors : JoinStart(t, p, b, c)
        \/ PopLRange(t)
        \/ PopHGetAll(t)
        \/ PopLRem(t)
        \/ PopDelete(t)
        \/ PopScan(t)
        \/ PopMemPop(t)
        \/ JoinCreate(t)
        \/ NotifyReq(t)
        \/ NotifyOpp(t)
        \/ SetexReq(t)
        \/ SetexOpp(t)
        \/ EnqHSet(t)
        \/ EnqRPush(t)
        \/ EnqMem(t)
        \/ \E p \in Players : LeaveStart(t, p)
        \/ LeavePop(t)
        \/ LeaveMatched(t)
        \/ LeaveHGetAll(t)
        \/ LeaveDelEntry(t)
        \/ LeaveDelMatch(t)
        \/ LeaveLRem(t)
        \/ \E p \in Players : StatusStart(t, p)
        \/ StatusGetDel(t)
        \/ StatusCheck(t)
        \/ StatusPop(t)
        \/ StatusQueue(t)

Spec == Init /\ [][Next]_vars

\* ====================================================================
\* Sessions: create, move, resign, and the multiplayer session endpoints
\* ====================================================================
\* a session request is answered with an HTTP status
\* the response of a request: the HTTP status, the analyzer calls the request
\* made, the events it broadcasts, the engine move and the outcome it carries
Respond(s, op, code, analyzer, events, engine_move, outcome) ==
    /\ nops < MaxOps
    /\ lastResp' = [op |-> op, sid |-> s, code |-> code, analyzer |-> analyzer,
                    events |-> events,
                    engine_move |-> engine_move,
                    result |-> outcome.result, winner |-> outcome.winner]
    /\ nops' = nops + 1

NoOutcome == [result |-> None, winner |-> None]

Answer(s, op, code) == Respond(s, op, code, 0, <<>>, None, NoOutcome)

\* SessionRepository.get_session: the cache entry, else the row
GetSession(s) == IF cache[s] # NoSession THEN cache[s] ELSE db[s]

NoBroadcast == UNCHANGED <<connections, tasks, received, stalled, lastDone>>

\* websocket.send_json is entered for the first sink of the task's order: the
\* frame is written to the sink, unless the send is going to raise
Sending(t, task, ok) ==
    /\ tasks' = [tasks EXCEPT ![t] = [task EXCEPT !.ok = ok]]
    /\ received' = IF ok THEN [received EXCEPT ![Head(task.order)] = Append(@, task.msg)]
                   ELSE received

\* SessionStreamManager.broadcast, up to its first send: with no subscriber
\* it returns at once, else the request waits in the first send of a snapshot
Broadcast(s, msgs) ==
    /\ IF msgs = <<>> \/ connections[s] = {}
       THEN UNCHANGED <<tasks, received>>
       ELSE \E t \in TaskIds :
               /\ tasks[t] = NoTask
               /\ \A u \in TaskIds : u < t => tasks[u] # NoTask
               /\ \E order \in Orders(connections[s]), ok \in BOOLEAN :
                     Sending(t, Task(s, Head(msgs), order, connections[s], Tail(msgs)), ok)
    /\ UNCHANGED <<connections, stalled, lastDone>>

\* a handler that read the session raises HTTPException before it writes
Rejected(s, op, code, analyzer) ==
    /\ Respond(s, op, code, analyzer, <<>>, None, NoOutcome)
    /\ cache' = [cache EXCEPT ![s] = GetSession(s)]
    /\ UNCHANGED <<db, ratings, applied>>
    /\ NoBroadcast

\* a rejection that comes after the analyzer was asked
RejectAfterAnalyzer(s, op, code) == Rejected(s, op, code, 1)

Reject(s, op, code) == Rejected(s, op, code, 0)

\* a save that is put off
SaveNothing(s, record) == UNCHANGED <<db, cache, ratings, applied>>

\* SessionRepository.save
Save(s, record) ==
    /\ db' = [db EXCEPT ![s] = SaveRow(db[s], record)]
    /\ cache' = [cache EXCEPT ![s] = SaveRow(db[s], record)]
    /\ UNCHANGED <<ratings, applied>>

\* store.get_player_rating is not among the source files: the player's rating
GetPlayerRating(player_id) == ratings[player_id]

\* store.apply_engine_rating is not among the source files.  After the
\* specification: the delta of the finished game is added to the player's
\* rating and stored with the record, which is persisted with its outcome.
RatedRecord(record, winner) ==
    [record EXCEPT !.player_rating = @ + EloDelta(winner),
                   !.player_rating_delta = EloDelta(winner),
                   !.result = IF IsCheckmate(record.fen) THEN "checkmate" ELSE "stalemate",
                   !.winner = winner]

ApplyEngineRating(s, record, winner) ==
    /\ db' = [db EXCEPT ![s] = RatedRecord(record, winner)]
    /\ cache' = [cache EXCEPT ![s] = RatedRecord(record, winner)]
    /\ ratings' = IF record.player_id # None
                  THEN [ratings EXCEPT ![record.player_id] = @ + EloDelta(winner)]
                  ELSE ratings
    /\ applied' = [applied EXCEPT ![s] = @ + 1]

\* the next session id is the first one not in use
Fresh(s) == db[s] = NoSession /\ \A u \in SessIds : u < s => db[u] # NoSession

\* POST /sessions: store.create_session
CreateSessionWith(s, color, difficulty, engine_rating, engine_depth) ==
    /\ nops < MaxOps
    /\ endsGame' = FALSE
    /\ Fresh(s)
    /\ LET c == ResolveColors(color)
           e == resolve_engine_settings(difficulty, engine_rating, engine_depth)
           record == [SessionRecord(c.player_color, c.engine_color, None, None, FALSE, now)
                         EXCEPT !.engine_depth = e.engine_depth,
                                !.engine_rating = e.engine_rating,
                                !.difficulty = e.difficulty]
       IN /\ db' = [db EXCEPT ![s] = record]
          /\ cache' = [cache EXCEPT ![s] = record]
    /\ created' = [created EXCEPT ![s] =
                       CreateRequest(color, difficulty, engine_rating, engine_depth)]
    /\ Answer(s, "create_session", 201)
    /\ UNCHANGED <<ratings, applied>>
    /\ NoBroadcast
    /\ UNCHANGED <<mmVars, procVars, lastPlayer, loaded, arg, out, cacheVars>>

\* a create request that names neither difficulty nor rating nor depth
CreateSession(s, color) == CreateSessionWith(s, color, None, Absent, Absent)

\* POST /multiplayer/sessions: store.create_multiplayer_session
CreateMultiplayerSession(s, white_id, black_id, color, coin) ==
    /\ nops < MaxOps
    /\ endsGame' = FALSE
    /\ Fresh(s)
    /\ LET sides == StoreSides(white_id, black_id, color, coin)
           record == SessionRecord("white", "black", sides.player_white_id,
                                   sides.player_black_id, TRUE, now)
       IN /\ db' = [db EXCEPT ![s] = record]
          /\ cache' = [cache EXCEPT ![s] = record]
    /\ Answer(s, "create_multiplayer_session", 201)
    /\ UNCHANGED <<ratings, applied>>
    /\ NoBroadcast
    /\ UNCHANGED <<mmVars, svcVars>>

\* make_move lines 183-186: the record with the request's player and rating
WithPlayer(r0, payload_player_id) ==
    LET r1 == IF r0.player_id = None /\ payload_player_id # None
              THEN [r0 EXCEPT !.player_id = payload_player_id] ELSE r0
    IN IF r1.player_id # None
       THEN [r1 EXCEPT !.player_rating = GetPlayerRating(r1.player_id)] ELSE r1

\* engine.evaluate_position: the score of the position after the engine's move
EvaluatePosition(board) ==
    IF IsCheckmate(board) THEN 0 - CHECKMATE_CP
    ELSE IF IsStalemate(board) THEN 0
    ELSE AnalyzerScore(board)

\* make_move from line 278 on: the engine's turn
EngineReply(s, record, moved, player_uci, clocks) ==
    LET engine_turn == IF record.engine_color = "white" THEN "w" ELSE "b"
    IN IF ActiveColor(moved) # engine_turn THEN Reject(s, "make_move", 409)
       ELSE IF PickEngineMove(moved) = {} THEN Rejected(s, "make_move", 410, 1)
       ELSE \E engine_move \in PickEngineMove(moved), eval_cp \in {AnalyzerScore(moved)} :
            \E after \in {ApplyUci(moved, engine_move)} :
            \E post_engine_eval \in {EvaluatePosition(after)} :
            \* lines 288-300: the player's insight
            \E log1 \in {IF player_uci # None
                         THEN Append(record.move_log,
                                     BuildMoveInsight(player_uci, "player", eval_cp,
                                                      Len(record.move_log) + 1))
                         ELSE record.move_log} :
            \* lines 320-336: the engine's insight, fen and clocks
            \E r2 \in {[record EXCEPT
                          !.move_log = Append(log1, BuildMoveInsight(engine_move, "engine",
                                                     post_engine_eval, Len(log1) + 1)),
                          !.last_eval_cp = post_engine_eval,
                          !.fen = after, !.clocks = clocks]} :
            \* line 338: record = store.save(record)
            \E saved \in {SaveRow(db[s], r2)} :
               IF IsCheckmate(after) \/ IsStalemate(after)
               THEN \* lines 358-406
                    \E outcome \in {DetermineOutcome(after, saved.player_color)} :
                    /\ ApplyEngineRating(s, [saved EXCEPT !.status = "completed"],
                                         outcome.winner)
                    /\ Respond(s, "make_move", 200, 2, <<"game_over", "engine_move">>,
                               engine_move, outcome)
                    /\ Broadcast(s, <<Msg("game_over", s, Len(saved.move_log),
                                          EventPayload(None, None, outcome.result,
                                                       outcome.winner)),
                                      Msg("engine_move", s, Len(saved.move_log),
                                          EventPayload(engine_move, saved.clocks,
                                                       outcome.result, outcome.winner))>>)
               ELSE /\ Save(s, r2)
                    /\ Respond(s, "make_move", 200, 2, <<"engine_move">>, engine_move, NoOutcome)
                    /\ Broadcast(s, <<Msg("engine_move", s, Len(saved.move_log),
                                          EventPayload(engine_move, saved.clocks,
                                                       None, None))>>)

\* make_move lines 196-276: the player's move
PlayerMove(s, record, uci, clocks) ==
    LET board == record.fen
        player_turn == IF record.player_color = "white" THEN "w" ELSE "b"
    IN IF ActiveColor(board) # player_turn THEN Reject(s, "make_move", 409)
       ELSE IF BadPromotion(uci) THEN Reject(s, "make_move", 400)
       ELSE IF uci \notin LegalMoves(board) THEN Reject(s, "make_move", 400)
       ELSE \E moved \in {ApplyUci(board, uci)} :
               IF IsCheckmate(moved) \/ IsStalemate(moved)
               THEN \* lines 212-276
                    \E eval_cp \in {IF IsStalemate(moved) THEN 0
                                    ELSE IF record.player_color = "white" THEN CHECKMATE_CP
                                    ELSE 0 - CHECKMATE_CP} :
                    \E r2 \in {[record EXCEPT
                                  !.move_log = Append(@, BuildMoveInsight(uci, "player", eval_cp,
                                                             Len(record.move_log) + 1)),
                                  !.last_eval_cp = eval_cp,
                                  !.status = "completed", !.fen = moved, !.clocks = clocks]} :
                    \E outcome \in {DetermineOutcome(moved, record.player_color)} :
                       /\ ApplyEngineRating(s, r2, outcome.winner)
                       /\ Respond(s, "make_move", 200, 0, <<"game_over">>, None, outcome)
                       /\ Broadcast(s, <<Msg("game_over", s, Len(r2.move_log),
                                             EventPayload(None, None, outcome.result,
                                                          outcome.winner))>>)
               ELSE EngineReply(s, record, moved, uci, clocks)

\* the request carries a legal move of the player, whose turn it is, and the
\* move gives checkmate or stalemate
PlayerEndsGame(record, uci) ==
    /\ record # NoSession
    /\ record.fen.over = "no"
    /\ record.fen.turn = (IF record.player_color = "white" THEN "w" ELSE "b")
    /\ uci \in {"mate", "stale"}

\* make_move after store.get_session returned found
MakeMoveOn(s, found, uci, payload_player_id, clocks) ==
    /\ nops < MaxOps
    /\ endsGame' = PlayerEndsGame(found, uci)
    /\ IF found = NoSession
       THEN /\ Answer(s, "make_move", 404)
            /\ UNCHANGED <<db, cache, ratings, applied>>
            /\ NoBroadcast
       ELSE \E record \in {WithPlayer(found, payload_player_id)} :
               IF uci # None THEN PlayerMove(s, record, uci, clocks)
               ELSE EngineReply(s, record, record.fen, None, clocks)
    /\ lastPlayer' = payload_player_id
    /\ UNCHANGED <<mmVars, procVars, callVars>>

\* POST /sessions/{id}/moves: make_move
MakeMove(s, uci, payload_player_id, clocks) ==
    /\ MakeMoveOn(s, GetSession(s), uci, payload_player_id, clocks)
    /\ UNCHANGED loaded

\* POST /sessions/{id}/resign: resign_session, store.complete_session
ResignSession(s) ==
    /\ nops < MaxOps
    /\ endsGame' = FALSE
    /\ IF db[s] = NoSession
       THEN Answer(s, "resign_session", 404) /\ UNCHANGED <<db, cache>>
       ELSE /\ db' = [db EXCEPT ![s].status = "completed", ![s].updated_at = now]
            /\ cache' = [cache EXCEPT ![s] = [db[s] EXCEPT !.status = "completed",
                                                            !.updated_at = now]]
            /\ Answer(s, "resign_session", 200)
    /\ UNCHANGED <<ratings, applied>>
    /\ NoBroadcast
    /\ UNCHANGED <<mmVars, svcVars>>

\* multiplayer._quick_material_eval: the material balance of the position
QuickMaterialEval(board) == MaterialBalance(board)

\* play_move from line 225 on
PlayMoveOn(s, record, player_id, uci) ==
    LET board == record.fen
        mover_color == IF board.turn = "w" THEN "white" ELSE "black"
        expected_player == IF mover_color = "white" THEN record.player_white_id
                           ELSE record.player_black_id
    IN IF ~record.is_multiplayer THEN Reject(s, "play_move", 409)
       ELSE IF expected_player # None /\ player_id # expected_player
       THEN Reject(s, "play_move", 403)
       ELSE IF uci \notin LegalMoves(board) THEN Reject(s, "play_move", 400)
       ELSE /\ \E moved \in {ApplyUci(board, uci)},
                  elapsed_ms \in {Max(0, SecondsToMs(now - record.updated_at))} :
               \* lines 239-249
               \E clocks \in {IF mover_color = "white"
                              THEN [record.clocks EXCEPT !.player_ms = Max(0, @ - elapsed_ms)]
                              ELSE [record.clocks EXCEPT !.engine_ms = Max(0, @ - elapsed_ms)]} :
               \* lines 251-257
               \E eval_cp \in (IF IsCheckmate(moved)
                               THEN {IF mover_color = "white" THEN CHECKMATE_CP
                                     ELSE 0 - CHECKMATE_CP}
                               ELSE IF IsStalemate(moved) THEN {0}
                               ELSE {QuickMaterialEval(moved)}) :
               \E r2 \in {[record EXCEPT
                             !.move_log = Append(@, BuildMoveInsight(uci, "player", eval_cp,
                                                        Len(record.move_log) + 1)),
                             !.last_eval_cp = eval_cp, !.fen = moved, !.clocks = clocks,
                             !.updated_at = now]} :
               \* lines 278-286
               \E r3 \in {IF IsCheckmate(moved)
                           THEN [r2 EXCEPT !.status = "completed", !.result = "checkmate",
                                           !.winner = IF moved.turn = "b" THEN "white"
                                                      ELSE "black"]
                           ELSE IF IsStalemate(moved)
                           THEN [r2 EXCEPT !.status = "completed",
                                           !.result = "stalemate", !.winner = "draw"]
                           ELSE r2} :
                 /\ Save(s, r3)
                 /\ Respond(s, "play_move", 200, 0, <<"player_move">>, None,
                            [result |-> r3.result, winner |-> r3.winner])
                 /\ Broadcast(s, <<Msg("player_move", s, Len(r3.move_log),
                                       EventPayload(uci, clocks, r3.result, r3.winner))>>)

\* POST /multiplayer/sessions/{id}/moves: play_move
PlayMove(s, player_id, uci) ==
    /\ nops < MaxOps
    /\ endsGame' = FALSE
    /\ \E found \in {GetSession(s)} :
          IF found = NoSession
          THEN /\ Answer(s, "play_move", 404)
               /\ UNCHANGED <<db, cache, ratings, applied>>
               /\ NoBroadcast
          ELSE PlayMoveOn(s, found, player_id, uci)
    /\ lastPlayer' = player_id
    /\ UNCHANGED <<mmVars, procVars, loaded, callVars>>

\* resign, offer_draw and abort_session of multiplayer.py: one handler but
\* for the fields it sets
EndMultiplayerBy(s, op, status, result, winner, by) ==
    /\ nops < MaxOps
    /\ endsGame' = FALSE
    /\ \E found \in {GetSession(s)} :
          IF found = NoSession
          THEN /\ Answer(s, op, 404)
               /\ UNCHANGED <<db, cache, ratings, applied>>
               /\ NoBroadcast
          ELSE IF ~found.is_multiplayer THEN Reject(s, op, 409)
          ELSE /\ Save(s, [found EXCEPT !.status = status, !.result = result,
                                        !.winner = winner])
               /\ Respond(s, op, 200, 0, <<"game_over">>, None,
                          [result |-> result, winner |-> winner])
               /\ Broadcast(s, <<Msg("game_over", s, Len(found.move_log),
                                     EventPayload(None, None, result, winner))>>)
    /\ lastPlayer' = by
    /\ UNCHANGED <<mmVars, procVars, loaded, callVars>>

\* a request to end the game carries no player_id
EndMultiplayer(s, op, status, result, winner) ==
    EndMultiplayerBy(s, op, status, result, winner, None)

\* the winner resign records for player_color, taken as the color that resigns
OpponentOf(player_color) == IF player_color = "black" THEN "white" ELSE "black"

\* POST /multiplayer/sessions/{id}/resign, sent by the player of color by:
\* nothing in the request says who sent it
ResignBy(s, by) ==
    EndMultiplayerBy(s, "resign", "completed", "resigned",
                     OpponentOf(GetSession(s).player_color), by)

Resign(s) == ResignBy(s, None)

\* POST /multiplayer/sessions/{id}/draw
OfferDraw(s) == EndMultiplayer(s, "offer_draw", "completed", "draw", "draw")

\* POST /multiplayer/sessions/{id}/abort
AbortSession(s) == EndMultiplayer(s, "abort_session", "abandoned", "abandoned", None)

\* SessionCache: an entry is dropped when its ttl has run out
CacheExpire(s) ==
    /\ cache[s] # NoSession
    /\ cache' = [cache EXCEPT ![s] = NoSession]
    /\ UNCHANGED <<db, ratings, nops, lastResp, applied, endsGame>>
    /\ NoBroadcast
    /\ UNCHANGED <<mmVars, svcVars>>

SessNext ==
    \E s \in SessIds :
        \/ \E color \in Colors : CreateSession(s, color)
        \/ \E white_id \in {"A", None}, black_id \in {"B", None}, color \in Colors :
               \E coin \in (IF color = "auto" /\ white_id # None /\ black_id # None
                            THEN BOOLEAN ELSE {FALSE}) :
                   CreateMultiplayerSession(s, white_id, black_id, color, coin)
        \/ \E uci \in UciInputs \cup {None}, player_id \in {"A", None},
                 clocks \in ClockInputs :
               MakeMove(s, uci, player_id, clocks)
        \/ ResignSession(s)
        \/ \E player_id \in SessPlayers, uci \in UciInputs : PlayMove(s, player_id, uci)
        \/ Resign(s)
        \/ OfferDraw(s)
        \/ AbortSession(s)
        \/ CacheExpire(s)

\* the queue is left alone while the sessions are exercised
SessSpecInit == Init /\ ~useRedis /\ ~overlap

SessSpec == SessSpecInit /\ [][SessNext]_vars

\* games of two players that one of them resigns
ResignNext ==
    \E s \in SessIds :
        \/ \E white_id \in {"A", None}, black_id \in {"B", None}, color \in Colors :
               \E coin \in (IF color = "auto" /\ white_id # None /\ black_id # None
                            THEN BOOLEAN ELSE {FALSE}) :
                   CreateMultiplayerSession(s, white_id, black_id, color, coin)
        \/ \E player_id \in SessPlayers, uci \in UciInputs : PlayMove(s, player_id, uci)
        \/ \E by \in {"white", "black"} : ResignBy(s, by)

ResignSpec == SessSpecInit /\ [][ResignNext]_vars

\* ------------------------------------------------------- session streams
\* websocket /sessions/{id}/stream: session_stream, SessionStreamManager.connect
Connect(s, k) ==
    /\ GetSession(s) # NoSession
    /\ \A u \in SessIds : k \notin connections[u]
    /\ k \notin stalled
    /\ connections' = [connections EXCEPT ![s] = @ \cup {k}]
    /\ cache' = [cache EXCEPT ![s] = GetSession(s)]
    /\ UNCHANGED <<db, ratings, nops, lastResp, applied, endsGame, tasks, received, stalled, lastDone>>
    /\ UNCHANGED <<mmVars, svcVars>>

\* the client closes its stream: WebSocketDisconnect, SessionStreamManager.disconnect
Disconnect(s, k) ==
    /\ k \in connections[s]
    /\ k \notin stalled
    /\ connections' = [connections EXCEPT ![s] = @ \ {k}]
    /\ UNCHANGED <<db, cache, ratings, nops, lastResp, applied, endsGame, tasks, received, stalled,
                   lastDone>>
    /\ UNCHANGED <<mmVars, svcVars>>

\* a subscribed sink stops reading: from now on a send to it neither
\* completes nor fails
Stall(k) ==
    /\ k \notin stalled
    /\ \E s \in SessIds : k \in connections[s]
    /\ stalled' = stalled \cup {k}
    /\ UNCHANGED <<db, cache, ratings, nops, lastResp, applied, endsGame, connections, tasks, received,
                   lastDone>>
    /\ UNCHANGED <<mmVars, svcVars>>

\* SessionStreamManager.broadcast lines 27-33: the send the request waits in
\* returns or raises, and the request enters the send to the next sink of the
\* snapshot; after the last one the dead sinks are disconnected and the
\* handler goes on to its next broadcast, if any
SendJson(t) ==
    /\ tasks[t] # NoTask
    /\ \E task \in {tasks[t]} :
       \E k \in {Head(task.order)} :
       \E dead \in {IF task.ok THEN task.dead ELSE task.dead \cup {k}} :
          /\ k \notin stalled
          /\ IF Tail(task.order) # <<>>
             THEN /\ \E ok \in BOOLEAN :
                        Sending(t, [task EXCEPT !.order = Tail(task.order), !.dead = dead], ok)
                  /\ UNCHANGED <<connections, lastDone>>
             ELSE \E conns \in {Pruned(connections[task.sid], dead)} :
                  /\ connections' = [connections EXCEPT ![task.sid] = conns]
                  /\ lastDone' = [msg |-> task.msg, snap |-> task.snap, dead |-> dead,
                                  before |-> connections[task.sid], after |-> conns]
                  /\ IF task.rest = <<>> \/ conns = {}
                     THEN tasks' = [tasks EXCEPT ![t] = NoTask] /\ UNCHANGED received
                     ELSE \E order \in Orders(conns), ok \in BOOLEAN :
                             Sending(t, Task(task.sid, Head(task.rest), order, conns,
                                             Tail(task.rest)), ok)
    /\ UNCHANGED <<db, cache, ratings, nops, lastResp, applied, endsGame, stalled>>
    /\ UNCHANGED <<mmVars, svcVars>>

\* A session against the engine and the streams of its subscribers: the
\* requests that the runs with subscribers send.
MaxStreamOps == 3

StreamUcis == {"quiet", "mate", "stale", "a1a1", None}

StreamNext ==
    \E s \in SessIds :
        \/ nops < MaxStreamOps /\ \E color \in {"white", "black"} : CreateSession(s, color)
        \/ /\ nops < MaxStreamOps
           /\ \E uci \in StreamUcis : MakeMove(s, uci, None, ClockState(295000, 298000))
        \/ nops < MaxStreamOps /\ CreateMultiplayerSession(s, "A", "B", "white", FALSE)
        \/ /\ nops < MaxStreamOps
           /\ \E player_id \in SessPlayers, uci \in {"quiet", "mate"} :
                 PlayMove(s, player_id, uci)
        \/ \E k \in Sinks : Connect(s, k)
        \/ \E k \in Sinks : Disconnect(s, k)
        \/ \E t \in TaskIds : SendJson(t)

StreamSpec == SessSpecInit /\ [][StreamNext]_vars

\* A session, its subscribers, some of which stop reading, and the requests
\* that broadcast to them.  A send that can return does return.
LiveNext ==
    \E s \in SessIds :
        \/ nops < MaxStreamOps /\ CreateSession(s, "white")
        \/ /\ nops < MaxStreamOps
           /\ \E uci \in {"quiet", "mate"} : MakeMove(s, uci, None, ClockState(295000, 298000))
        \/ \E k \in Sinks : Connect(s, k)
        \/ \E k \in Sinks : Stall(k)
        \/ \E t \in TaskIds : SendJson(t)

LiveSpec == SessSpecInit /\ [][LiveNext]_vars /\ \A t \in TaskIds : WF_vars(SendJson(t))

\* ------------------------------------------------------- analyzer calls
\* a lock that every thread may take at any time
NeverHeld == TRUE

\* ENGINE_LOCK can be acquired
LockFree == ENGINE_LOCK = NoThread

\* with ENGINE_LOCK: thread t enters its call
Acquire(t, op, difficulty, engine_rating) ==
    /\ gwCalls < MaxGwCalls
    /\ gw[t].pc = "idle"
    /\ LockFree
    /\ ENGINE_LOCK' = t
    /\ gw' = [gw EXCEPT ![t] = [pc |-> "get", op |-> op, difficulty |-> difficulty,
                                 engine_rating |-> engine_rating, respawned |-> FALSE,
                                 queued |-> FALSE]]
    /\ gwCalls' = gwCalls + 1
    /\ UNCHANGED <<ENGINE, spawned, instances, gwLast>>
    /\ UNCHANGED <<now, limVars, lastPlayer, loaded, callVars>>
    /\ UNCHANGED <<mmVars, sessVars>>

\* engine = _get_engine(): when there is none, SimpleEngine.popen_uci starts
\* a subprocess, which has the engine's own options
GetEngine(t) ==
    /\ gw[t].pc = "get"
    /\ IF ENGINE = NoEngine
       THEN /\ spawned' = spawned + 1
            /\ ENGINE' = [gen |-> spawned + 1, alive |-> TRUE, conf |-> Unconfigured]
            /\ instances' = instances \cup {spawned + 1}
       ELSE UNCHANGED <<ENGINE, spawned, instances>>
    /\ gw' = [gw EXCEPT ![t].pc = "configure"]
    /\ UNCHANGED <<ENGINE_LOCK, gwCalls, gwLast>>
    /\ UNCHANGED <<now, limVars, lastPlayer, loaded, callVars>>
    /\ UNCHANGED <<mmVars, sessVars>>

\* a with block that keeps the lock when it is left
LeaveLocked(t, outcome) ==
    /\ ENGINE_LOCK' = ENGINE_LOCK
    /\ gw' = [gw EXCEPT ![t] = IdleCall]
    /\ gwLast' = [op |-> gw[t].op, by |-> t, outcome |-> outcome, conf |-> ENGINE.conf,
                   want |-> StrengthOptions(gw[t].difficulty, gw[t].engine_rating),
                   respawned |-> gw[t].respawned]

\* the call of thread t leaves the with block, by return or by exception
Leave(t, outcome) ==
    /\ ENGINE_LOCK' = IF ENGINE_LOCK = t THEN NoThread ELSE ENGINE_LOCK
    /\ gw' = [gw EXCEPT ![t] = IdleCall]
    /\ gwLast' = [op |-> gw[t].op, by |-> t, outcome |-> outcome, conf |-> ENGINE.conf,
                   want |-> StrengthOptions(gw[t].difficulty, gw[t].engine_rating),
                   respawned |-> gw[t].respawned]

\* engine.configure(...) and, where EngineTerminatedError is caught,
\* _shutdown_engine(), _get_engine() and what the handler does then
ConfigureEngine(t) ==
    /\ gw[t].pc = "configure"
    /\ IF ENGINE.alive
       THEN /\ ENGINE' = [ENGINE EXCEPT !.conf = Configure(@, gw[t])]
            /\ gw' = [gw EXCEPT ![t].pc = "run"]
            /\ UNCHANGED <<ENGINE_LOCK, spawned, instances, gwLast>>
       ELSE IF gw[t].op = "_get_candidates"
            THEN Leave(t, "error") /\ UNCHANGED <<ENGINE, spawned, instances>>
            ELSE /\ spawned' = spawned + 1
                 /\ ENGINE' = [gen |-> spawned + 1, alive |-> TRUE,
                               conf |-> IF gw[t].op = "analyze_position"
                                        THEN Configure(Unconfigured, gw[t])
                                        ELSE Unconfigured]
                 /\ instances' = (instances \ {ENGINE.gen}) \cup {spawned + 1}
                 /\ gw' = [gw EXCEPT ![t].pc = "run", ![t].respawned = TRUE]
                 /\ UNCHANGED <<ENGINE_LOCK, gwLast>>
    /\ UNCHANGED gwCalls
    /\ UNCHANGED <<now, limVars, lastPlayer, loaded, callVars>>
    /\ UNCHANGED <<mmVars, sessVars>>

\* engine.play(...) or engine.analyse(...), and the end of the with block
Run(t) ==
    /\ gw[t].pc = "run"
    /\ Leave(t, IF ENGINE.alive THEN "ok" ELSE "error")
    /\ UNCHANGED <<ENGINE, gwCalls, spawned, instances>>
    /\ UNCHANGED <<now, limVars, lastPlayer, loaded, callVars>>
    /\ UNCHANGED <<mmVars, sessVars>>

\* the subprocess terminates
Die ==
    /\ ENGINE.alive
    /\ ENGINE' = [ENGINE EXCEPT !.alive = FALSE]
    /\ UNCHANGED <<ENGINE_LOCK, gw, gwCalls, spawned, instances, gwLast>>
    /\ UNCHANGED <<now, limVars, lastPlayer, loaded, callVars>>
    /\ UNCHANGED <<mmVars, sessVars>>

GwNext ==
    \/ \E t \in Threads :
           \/ \E op \in {"pick_engine_move", "evaluate_position", "analyze_position",
                          "_get_candidates"},
                 difficulty \in {"beginner", "grandmaster", "unknown"},
                 engine_rating \in {900, 1600, 3000} :
                  Acquire(t, op, difficulty, engine_rating)
           \/ GetEngine(t)
           \/ ConfigureEngine(t)
           \/ Run(t)
    \/ Die

GwSpec == SessSpecInit /\ [][GwNext]_vars

\* ------------------------------------- analyzer calls that queue and fail
GwFrame ==
    /\ UNCHANGED <<now, limVars, lastPlayer, loaded, callVars>>
    /\ UNCHANGED <<mmVars, sessVars>>

\* thread t calls the analyzer and comes to `with ENGINE_LOCK`
Call(t, op, difficulty, engine_rating) ==
    /\ gwCalls < MaxGwCalls
    /\ gw[t].pc = "idle"
    /\ gw' = [gw EXCEPT ![t] = [pc |-> "wait", op |-> op, difficulty |-> difficulty,
                                 engine_rating |-> engine_rating, respawned |-> FALSE,
                                 queued |-> ~LockFree]]
    /\ gwCalls' = gwCalls + 1
    /\ UNCHANGED <<ENGINE_LOCK, ENGINE, spawned, instances, gwLast>>
    /\ GwFrame

\* ENGINE_LOCK.__enter__ returns
Enter(t) ==
    /\ gw[t].pc = "wait"
    /\ LockFree
    /\ ENGINE_LOCK' = t
    /\ gw' = [gw EXCEPT ![t].pc = "get"]
    /\ UNCHANGED <<ENGINE, gwCalls, spawned, instances, gwLast>>
    /\ GwFrame

\* pick_engine_move on a position where the game is over: ValueError before
\* the with block is reached
GameOverCall(t) ==
    /\ gwCalls < MaxGwCalls
    /\ gw[t].pc = "idle"
    /\ gwCalls' = gwCalls + 1
    /\ gwLast' = [op |-> "pick_engine_move", by |-> t, outcome |-> "failed",
                   conf |-> ENGINE.conf, want |-> Unconfigured, respawned |-> FALSE]
    /\ UNCHANGED <<ENGINE_LOCK, ENGINE, gw, spawned, instances>>
    /\ GwFrame

\* SimpleEngine.popen_uci raises in _get_engine, at the start of the call or
\* after _shutdown_engine in the handler of EngineTerminatedError
SpawnFails(t) ==
    /\ \/ gw[t].pc = "get" /\ ENGINE = NoEngine
       \/ gw[t].pc = "configure" /\ ~ENGINE.alive /\ gw[t].op # "_get_candidates"
    /\ ENGINE' = NoEngine
    /\ instances' = instances \ {ENGINE.gen}
    /\ Leave(t, "failed")
    /\ UNCHANGED <<gwCalls, spawned>>
    /\ GwFrame

\* engine.play returns no move: ValueError inside the with block
MissingMove(t) ==
    /\ gw[t].pc = "run"
    /\ gw[t].op = "pick_engine_move"
    /\ ENGINE.alive
    /\ Leave(t, "failed")
    /\ UNCHANGED <<ENGINE, gwCalls, spawned, instances>>
    /\ GwFrame

\* what a thread inside the with block does next
InCall(t) ==
    \/ GetEngine(t)
    \/ SpawnFails(t)
    \/ ConfigureEngine(t)
    \/ Run(t)
    \/ MissingMove(t)

QueuedNext ==
    \/ \E t \in Threads :
           \/ \E op \in {"pick_engine_move", "evaluate_position", "analyze_position",
                          "_get_candidates"} :
                  Call(t, op, "beginner", 1600)
           \/ Enter(t)
           \/ GameOverCall(t)
           \/ GetEngine(t)
           \/ SpawnFails(t)
           \/ ConfigureEngine(t)
           \/ Run(t)
           \/ MissingMove(t)
    \/ Die

\* a thread inside the with block goes on, and a thread that waits for the
\* lock gets it if the lock is free again and again
QueuedSpec ==
    /\ SessSpecInit
    /\ [][QueuedNext]_vars
    /\ \A t \in Threads : WF_vars(InCall(t)) /\ SF_vars(Enter(t))

\* time passes: d seconds, up to the second until
Tick(d, until) ==
    /\ now + d <= until
    /\ now' = now + d
    /\ UNCHANGED <<limVars, lastPlayer, loaded, callVars>>
    /\ UNCHANGED <<ENGINE_LOCK, ENGINE, gw, gwCalls, spawned, instances, gwLast>>
    /\ UNCHANGED <<mmVars, sessVars>>

\* ------------------------------------------------ the repository, step by step
\* Handlers declared with async def run on the one thread of the event loop;
\* those declared with def run on the threads of the pool.
EventLoop == 1

MaxCacheNow == 90

RepoFrame ==
    /\ UNCHANGED <<ratings, lastResp, applied, endsGame>>
    /\ NoBroadcast
    /\ UNCHANGED <<mmVars, procVars, lastPlayer, loaded, created, arg, out>>

\* SessionCache.get without redis: the entry, unless its time has run out
CacheLive(s) == cache[s] # NoSession /\ ~(expires[s] < now)

\* a cache whose entries never run out
CacheHas(s) == cache[s] # NoSession

\* store.create_multiplayer_session: the session_id is made here and known to
\* no other request before the call has returned
RepoCreate(t, s) ==
    /\ t # EventLoop /\ repo[t] = IdleRepo
    /\ nops < MaxOps /\ nops' = nops + 1
    /\ Fresh(s)
    /\ LET record == SessionRecord("white", "black", "A", "B", TRUE, now)
       IN /\ db' = [db EXCEPT ![s] = record]
          /\ cache' = [cache EXCEPT ![s] = record]
    /\ expires' = [expires EXCEPT ![s] = now + CacheTtl]
    /\ UNCHANGED <<repo, lastGet>>
    /\ RepoFrame

\* store.get_session up to self.cache.set: for GET /sessions/{id} on a thread
\* of the pool, and as the first call of abort_session on the event loop
GetSessionCall(t, s, op) ==
    /\ repo[t] = IdleRepo
    /\ (op = "abort_session") = (t = EventLoop)
    /\ nops < MaxOps /\ nops' = nops + 1
    /\ IF CacheLive(s)
       THEN /\ lastGet' = GetResult(nops', s, cache[s], TRUE, now, expires[s])
            /\ repo' = [repo EXCEPT ![t] = IF op = "get_session" THEN IdleRepo
                                            ELSE RepoCall("commit", op, s, cache[s])]
            /\ UNCHANGED <<cache, expires>>
       ELSE /\ cache' = [cache EXCEPT ![s] = NoSession]
            /\ expires' = [expires EXCEPT ![s] = 0]
            /\ repo' = [repo EXCEPT ![t] = IF db[s] = NoSession THEN IdleRepo
                                            ELSE RepoCall("fill", op, s, db[s])]
            /\ UNCHANGED lastGet
    /\ UNCHANGED db
    /\ RepoFrame

\* self.cache.set(session_id, record.to_cache()) of get_session, and its return
CacheFill(t) ==
    /\ repo[t].pc = "fill"
    /\ cache' = [cache EXCEPT ![repo[t].sid] = repo[t].record]
    /\ expires' = [expires EXCEPT ![repo[t].sid] = now + CacheTtl]
    /\ lastGet' = GetResult(nops, repo[t].sid, repo[t].record, FALSE, now, now + CacheTtl)
    /\ repo' = [repo EXCEPT ![t] = IF repo[t].op = "get_session" THEN IdleRepo
                                    ELSE [repo[t] EXCEPT !.pc = "commit"]]
    /\ UNCHANGED <<db, nops>>
    /\ RepoFrame

\* abort_session sets the fields of its record; store.save up to db.refresh
SaveCommit(t) ==
    /\ repo[t].pc = "commit"
    /\ LET record == [repo[t].record EXCEPT !.status = "abandoned",
                                            !.result = "abandoned", !.winner = None]
           row == SaveRow(db[repo[t].sid], record)
       IN /\ db' = [db EXCEPT ![repo[t].sid] = row]
          /\ repo' = [repo EXCEPT ![t] = RepoCall("set", "save", repo[t].sid, row)]
    /\ UNCHANGED <<cache, expires, lastGet, nops>>
    /\ RepoFrame

\* store.complete_session up to db.refresh, for POST /sessions/{id}/resign
CompleteSession(t, s) ==
    /\ t # EventLoop /\ repo[t] = IdleRepo
    /\ nops < MaxOps /\ nops' = nops + 1
    /\ db[s] # NoSession
    /\ LET row == [db[s] EXCEPT !.status = "completed", !.updated_at = now]
       IN /\ db' = [db EXCEPT ![s] = row]
          /\ repo' = [repo EXCEPT ![t] = RepoCall("set", "complete_session", s, row)]
    /\ UNCHANGED <<cache, expires, lastGet>>
    /\ RepoFrame

\* self.cache.set(...) at the end of save and complete_session
CacheSet(t) ==
    /\ repo[t].pc = "set"
    /\ cache' = [cache EXCEPT ![repo[t].sid] = repo[t].record]
    /\ expires' = [expires EXCEPT ![repo[t].sid] = now + CacheTtl]
    /\ repo' = [repo EXCEPT ![t] = IdleRepo]
    /\ UNCHANGED <<db, nops, lastGet>>
    /\ RepoFrame

RepoNext ==
    \/ \E t \in Threads, s \in SessIds : RepoCreate(t, s)
    \/ \E t \in Threads, s \in SessIds, op \in {"get_session", "abort_session"} :
          GetSessionCall(t, s, op)
    \/ \E t \in Threads : CacheFill(t)
    \/ \E t \in Threads : SaveCommit(t)
    \/ \E t \in Threads, s \in SessIds : CompleteSession(t, s)
    \/ \E t \in Threads : CacheSet(t)
    \/ Tick(30, MaxCacheNow)

RepoSpec == SessSpecInit /\ [][RepoNext]_vars

\* ------------------------------------------- a resign while a move is served
\* make_move, a coroutine of the event loop, has got its record from
\* store.get_session and is on its way to store.save
LoadMove(s) ==
    /\ nops < MaxOps
    /\ GetSession(s) # NoSession
    /\ loaded[s] = NoSession
    /\ loaded' = [loaded EXCEPT ![s] = GetSession(s)]
    /\ cache' = [cache EXCEPT ![s] = GetSession(s)]
    /\ UNCHANGED <<db, ratings, nops, lastResp, applied, endsGame>>
    /\ NoBroadcast
    /\ UNCHANGED <<mmVars, procVars, lastPlayer, callVars>>

\* the rest of make_move, with the record it had loaded
FinishMove(s, uci, clocks) ==
    /\ loaded[s] # NoSession
    /\ MakeMoveOn(s, loaded[s], uci, None, clocks)
    /\ loaded' = [loaded EXCEPT ![s] = NoSession]

\* resign_session is served by a thread of the pool, at any time between the
\* steps of the event loop
RaceNext ==
    \E s \in SessIds :
        \/ \E color \in {"white", "black"} : CreateSession(s, color)
        \/ LoadMove(s)
        \/ \E uci \in StreamUcis, clocks \in ClockInputs : FinishMove(s, uci, clocks)
        \/ ResignSession(s)
        \/ CacheExpire(s)

RaceSpec == SessSpecInit /\ [][RaceNext]_vars

\* ----------------------------------------------------------------- clocks
\* the last second of a game that is looked at
MaxClockNow == 900

\* MoveRequest.clock: two integers of the client's choice
ClockRequests == ClockInputs \cup {ClockState(0 - 1, 900000)}

\* TimeControl.increment_ms: the largest increment of a session
IncrementMs == 5000

\* moves with clocks: single-player moves that bring the client's clocks, and
\* multiplayer moves that are charged the time since the last update
ClockNext ==
    \/ \E s \in SessIds :
           \/ CreateSession(s, "white")
           \/ CreateMultiplayerSession(s, "A", "B", "white", FALSE)
           \/ \E clocks \in ClockRequests : MakeMove(s, "quiet", None, clocks)
           \/ \E player_id \in SessPlayers, uci \in {"quiet", "a1a1"} : PlayMove(s, player_id, uci)
    \/ \E d \in {100, 400} : Tick(d, MaxClockNow)

ClockSpec == SessSpecInit /\ [][ClockNext]_vars

\* ------------------------------------------------------------ coach calls
\* the coach call of session s is answered with code
CoachAnswer(s, code) ==
    coachCalls' = [coachCalls EXCEPT ![s] = Append(@, [at |-> now, code |-> code])]

\* _enforce_coach_rate_limit(session_id): the timestamps kept and whether the
\* call is let through (then with its own timestamp appended)
EnforceCoachRateLimit(s) ==
    LET window == settings.coach_rate_limit_window
        max_calls == settings.coach_rate_limit_max
    IN IF window = 0 \/ max_calls = 0
       THEN [ok |-> TRUE, timestamps |-> coach_rate_usage[s]]
       ELSE LET timestamps == Expired(coach_rate_usage[s], now - window)
            IN IF Len(timestamps) >= max_calls
               THEN [ok |-> FALSE, timestamps |-> timestamps]
               ELSE [ok |-> TRUE, timestamps |-> Append(timestamps, now)]

\* POST /sessions/{id}/coach: summarize_position
SummarizePosition(s) ==
    /\ Len(coachCalls[s]) < MaxCoachCalls
    /\ IF GetSession(s) = NoSession
       THEN /\ CoachAnswer(s, 404)
            /\ UNCHANGED <<coach_rate_usage, cache>>
            /\ NoBroadcast
       ELSE \E record \in {GetSession(s)} :
            \E limit \in {EnforceCoachRateLimit(s)} :
               /\ cache' = [cache EXCEPT ![s] = record]
               /\ coach_rate_usage' = [coach_rate_usage EXCEPT ![s] = limit.timestamps]
               /\ IF ~limit.ok
                  THEN CoachAnswer(s, 429) /\ NoBroadcast
                  ELSE \/ CoachAnswer(s, 502) /\ NoBroadcast
                       \/ /\ CoachAnswer(s, 200)
                          /\ Broadcast(s, <<Msg("coach_update", s, Len(record.move_log),
                                                EventPayload(None, None, None, None))>>)
    /\ UNCHANGED <<db, ratings, nops, lastResp, applied, endsGame>>
    /\ UNCHANGED <<settings, now, lastPlayer, loaded, callVars>>
    /\ UNCHANGED <<ENGINE_LOCK, ENGINE, gw, gwCalls, spawned, instances, gwLast>>
    /\ UNCHANGED mmVars

CoachNext ==
    \/ \E s \in SessIds :
           \/ \E color \in {"white", "black"} : CreateSession(s, color)
           \/ SummarizePosition(s)
    \/ Tick(1, MaxNow)

CoachInit == MMInit /\ ~useRedis /\ ~overlap /\ SessInit /\ SvcInit(CoachSettings)

CoachSpec == CoachInit /\ [][CoachNext]_vars

\* ---------------------------------------------------------------------------
\* Session creation with every kind of create request
\* ---------------------------------------------------------------------------

RequestDifficulties == {None, "beginner", "grandmaster", "custom"}
RequestRatings == {Absent, 600, 1460, 2800}
RequestDepths == {Absent, 1, 5}

CreateNext ==
    \E s \in SessIds, color \in Colors, difficulty \in RequestDifficulties,
       engine_rating \in RequestRatings, engine_depth \in RequestDepths :
        CreateSessionWith(s, color, difficulty, engine_rating, engine_depth)

CreateSpec == SessSpecInit /\ [][CreateNext]_vars

\* ---------------------------------------------------------------------------
\* Score conversion
\* ---------------------------------------------------------------------------

MaxCp == 25
MaxMate == 3

Scores ==
    {NoScore} \cup
    {PovScore(relative, turn) :
        relative \in {Cp(v) : v \in (0 - MaxCp)..MaxCp}
                     \cup {Mate(n) : n \in (0 - MaxMate)..MaxMate} \cup {MateGiven},
        turn \in {"white", "black"}}

\* one call of _score_to_cp
ScoreToCpCall(score) ==
    /\ arg' = score
    /\ out' = ScoreToCp(score)
    /\ UNCHANGED <<mmVars, sessVars, procVars, lastPlayer, loaded, created, cacheVars>>

ScoreNext == \E score \in Scores : ScoreToCpCall(score)

ScoreSpec == SessSpecInit /\ [][ScoreNext]_vars

\* ---------------------------------------------------------------------------
\* The helper functions of engine.py and openings.py, one call each
\* ---------------------------------------------------------------------------

Min(a, b) == IF a < b THEN a ELSE b

\* DIFFICULTY_SETTINGS: move_time by difficulty, in milliseconds
MOVE_TIME_MS ==
    [beginner |-> 200, intermediate |-> 250, advanced |-> 350, expert |-> 450,
     grandmaster |-> 600, custom |-> 400]

\* settings.engine_move_time_limit, in milliseconds
engine_move_time_limit == 600

\* the least think time of an analyzer call, in milliseconds
MinThinkMs == 50

\* a profile that is the row of the table, whatever the limit
TableProfile(difficulty, engine_rating, limit) ==
    LET row == IF difficulty \in DOMAIN DIFFICULTY_SETTINGS THEN difficulty ELSE "custom"
    IN [skill |-> DIFFICULTY_SETTINGS[row], elo |-> engine_rating,
        move_time |-> MOVE_TIME_MS[row]]

\* _difficulty_profile, under settings.engine_move_time_limit = limit
DifficultyProfile(difficulty, engine_rating, limit) ==
    LET row == IF difficulty \in DOMAIN DIFFICULTY_SETTINGS THEN difficulty ELSE "custom"
    IN [skill |-> DIFFICULTY_SETTINGS[row], elo |-> engine_rating,
        move_time |-> Min(limit, MOVE_TIME_MS[row])]

\* think_time of pick_engine_move, evaluate_position and analyze_position
ThinkTime(profile, limit) == Max(MinThinkMs, Min(limit, profile.move_time))

\* a classification with the two ends taken for each other
ClassifyEndsSwapped(delta_cp) ==
    IF delta_cp >= 150 THEN "blunder"
    ELSE IF delta_cp >= 80 THEN "great"
    ELSE IF delta_cp >= 30 THEN "good"
    ELSE IF delta_cp <= 0 - 150 THEN "brilliant"
    ELSE IF delta_cp <= 0 - 80 THEN "mistake"
    ELSE IF delta_cp <= 0 - 30 THEN "inaccuracy"
    ELSE "sharp"

\* _classify_delta
ClassifyDelta(delta_cp) ==
    IF delta_cp >= 150 THEN "brilliant"
    ELSE IF delta_cp >= 80 THEN "great"
    ELSE IF delta_cp >= 30 THEN "good"
    ELSE IF delta_cp <= 0 - 150 THEN "blunder"
    ELSE IF delta_cp <= 0 - 80 THEN "mistake"
    ELSE IF delta_cp <= 0 - 30 THEN "inaccuracy"
    ELSE "sharp"

THEME_LABELS ==
    [king_safety |-> "king safety", central_control |-> "central control",
     material_gain |-> "material play", piece_activity |-> "piece activity",
     king_attack |-> "king attack", space_gain |-> "space advantage",
     passed_pawn |-> "passed pawn", simplification |-> "simplification"]

THEME_TIPS ==
    [king_safety |-> "Keep building around the king and tie your rooks together.",
     central_control |-> "Dominating the center reduces your opponent's counterplay.",
     material_gain |-> "With material in hand, exchange into favorable endings.",
     piece_activity |-> "Improve the least active piece so everything coordinates.",
     king_attack |-> "Keep pieces flowing toward the king and watch for tactical shots.",
     space_gain |-> "Fix the space edge by restricting pawn breaks.",
     passed_pawn |-> "Put rooks behind the passer and march it confidently.",
     simplification |-> "Trade toward a structure your side prefers."]

\* _reverse_theme_lookup: the key of the first theme that is a label, else ""
ReverseThemeLookup(themes) ==
    LET known == {i \in DOMAIN themes : \E k \in DOMAIN THEME_LABELS : THEME_LABELS[k] = themes[i]}
    IN IF known = {} THEN ""
       ELSE LET first == CHOOSE i \in known : \A j \in known : i <= j
            IN CHOOSE k \in DOMAIN THEME_LABELS : THEME_LABELS[k] = themes[first]

VerdictText(verdict) ==
    CASE verdict = "brilliant" -> "found a brilliant resource that elevates the plan."
      [] verdict = "great" -> "chose an ambitious continuation and kept tension high."
      [] verdict = "good" -> "followed the strategic blueprint."
      [] verdict = "sharp" -> "kept the position dynamic and resourceful."
      [] verdict = "inaccuracy" -> "lost a bit of the thread."
      [] verdict = "mistake" -> "gave the opponent clear targets."
      [] verdict = "blunder" -> "handed over the initiative."
      [] OTHER -> "made a practical choice."

Reinforcement(verdict) ==
    CASE verdict = "brilliant" -> "Keep pressing with the same motif."
      [] verdict = "great" -> "Anchor the gain by consolidating your pieces."
      [] verdict = "good" -> "Stay alert for tactical ripostes."
      [] verdict = "sharp" -> "Balance activity with king safety."
      [] verdict = "inaccuracy" -> "Breathe, reinforce your weak squares."
      [] verdict = "mistake" -> "Rebuild your coordination and limit further damage."
      [] verdict = "blunder" -> "Switch to damage control and hunt counterplay."
      [] OTHER -> ""

\* " ".join of the parts that are not empty: the pieces of the text in order,
\* one space between two of them
JoinParts(parts) == SelectSeq(parts, LAMBDA part : part # "")

\* a commentary that names the engine whoever moved
ComposeForEngine(side, verdict, delta_cp, themes) ==
    JoinParts(<<"The engine", VerdictText(verdict), Reinforcement(verdict)>>)

\* _compose_commentary; the first part, actor and verdict text with a space
\* between them, is never empty
ComposeCommentary(side, verdict, delta_cp, themes) ==
    LET actor == IF side = "player" THEN "You" ELSE "The engine"
        key == ReverseThemeLookup(themes)
        theme_hint == IF key \in DOMAIN THEME_TIPS THEN THEME_TIPS[key] ELSE ""
    IN <<actor, VerdictText(verdict)>> \o JoinParts(<<theme_hint, Reinforcement(verdict)>>)

\* an insight whose delta is taken from white's side whoever moved
InsightForWhite(mover_color, side, prev_eval_cp, new_eval_cp, themes) ==
    LET delta_cp == new_eval_cp - prev_eval_cp
    IN [side |-> side, eval_cp |-> new_eval_cp, delta_cp |-> delta_cp,
        verdict |-> ClassifyDelta(delta_cp),
        commentary |-> ComposeCommentary(side, ClassifyDelta(delta_cp), delta_cp, themes),
        themes |-> themes]

\* build_move_insight: what it derives from the two evaluations and the themes
MoveInsight(mover_color, side, prev_eval_cp, new_eval_cp, themes) ==
    LET delta_cp == IF mover_color = "black"
                    THEN 0 - (new_eval_cp - prev_eval_cp)
                    ELSE new_eval_cp - prev_eval_cp
        verdict == ClassifyDelta(delta_cp)
    IN [side |-> side, eval_cp |-> new_eval_cp, delta_cp |-> delta_cp,
        verdict |-> verdict,
        commentary |-> ComposeCommentary(side, verdict, delta_cp, themes),
        themes |-> themes]

\* openings.py: the book
Opening(eco, name, uci) == [eco |-> eco, name |-> name, uci |-> uci]

OPENINGS ==
    << Opening("C60", "Ruy Lopez", <<"e2e4", "e7e5", "g1f3", "b8c6", "f1b5">>),
       Opening("C50", "Italian Game", <<"e2e4", "e7e5", "g1f3", "b8c6", "f1c4">>),
       Opening("B30", "Sicilian Defence", <<"e2e4", "c7c5">>),
       Opening("B90", "Sicilian Najdorf",
               <<"e2e4", "c7c5", "g1f3", "d7d6", "d2d4", "c5d4", "f3d4", "g8f6", "b1c3", "a7a6">>),
       Opening("B12", "Caro-Kann Defence", <<"e2e4", "c7c6", "d2d4", "d7d5">>),
       Opening("C00", "French Defence", <<"e2e4", "e7e6", "d2d4", "d7d5">>),
       Opening("B01", "Scandinavian Defence", <<"e2e4", "d7d5">>),
       Opening("D30", "Queen's Gambit Declined", <<"d2d4", "d7d5", "c2c4", "e7e6">>),
       Opening("D10", "Slav Defence", <<"d2d4", "d7d5", "c2c4", "c7c6">>),
       Opening("E60", "King's Indian Defence", <<"d2d4", "g8f6", "c2c4", "g7g6">>),
       Opening("D02", "London System", <<"d2d4", "d7d5", "c1f4">>),
       Opening("E21", "Nimzo-Indian Defence",
               <<"d2d4", "g8f6", "c2c4", "e7e6", "b1c3", "f8b4">>) >>

\* detect_opening returning None
NoOpening == Opening(None, None, <<>>)

\* seq[:n]
Take(seq, n) == SubSeq(seq, 1, Min(n, Len(seq)))

\* the test of detect_opening for one entry of the book (lines 28-33)
Matches(moves, seq) ==
    LET compare == IF Len(moves) < Len(seq) THEN moves ELSE Take(moves, Len(seq))
    IN Take(compare, Len(seq)) = Take(seq, Len(compare))

\* the loop of detect_opening from entry i on, best being the entry kept so far
RECURSIVE DetectFrom(_, _, _)
DetectFrom(moves, i, best) ==
    IF i > Len(OPENINGS) THEN best
    ELSE LET entry == OPENINGS[i]
         IN DetectFrom(moves, i + 1,
                IF Matches(moves, entry.uci)
                   /\ (best = NoOpening \/ Len(entry.uci) > Len(best.uci))
                THEN entry ELSE best)

\* detect_opening
DetectOpening(moves) == DetectFrom(moves, 1, NoOpening)

\* --- the calls ---

MaxDelta == 160
MaxEval == 200

Deltas == (0 - MaxDelta)..MaxDelta
Verdicts == {"blunder", "mistake", "inaccuracy", "sharp", "good", "great", "brilliant"}
ThemeLists == {<<>>, <<"king safety">>, <<"zwischenzug", "passed pawn">>, <<"zwischenzug">>}

ProfileCalls ==
    [fn : {"_difficulty_profile"},
     difficulty : DOMAIN DIFFICULTY_SETTINGS \cup {"unknown"},
     engine_rating : {600, 1000, 1800, 3000},
     limit : {10, 300, engine_move_time_limit, 1000}]

ClassifyCalls == [fn : {"_classify_delta"}, d1 : Deltas, d2 : Deltas]

InsightCalls ==
    [fn : {"build_move_insight"}, mover_color : {"white", "black"},
     side : {"player", "engine"}, prev_eval_cp : {0 - 40, 0, 40},
     new_eval_cp : (0 - MaxEval)..MaxEval, themes : {<<>>, <<"king safety">>}]

CommentaryCalls ==
    [fn : {"_compose_commentary"}, side : {"player", "engine"},
     verdict : Verdicts \cup {"unknown"}, delta_cp : {0 - 150, 0, 150},
     themes : ThemeLists]

MaxTail == 2

\* the move lists: every line of the book up to each of its moves, followed by
\* up to MaxTail moves of no book line
BookPrefixes ==
    UNION {{SubSeq(OPENINGS[i].uci, 1, k) : k \in 0..Len(OPENINGS[i].uci)} :
              i \in DOMAIN OPENINGS}
OpeningCalls ==
    [fn : {"detect_opening"},
     moves : {prefix \o [j \in 1..n |-> "a2a3"] : prefix \in BookPrefixes, n \in 0..MaxTail}]

\* no call has returned yet; the call has returned value
Pending == [done |-> FALSE]
Returned(value) == [done |-> TRUE, value |-> value]

HelperFrame ==
    UNCHANGED <<mmVars, sessVars, procVars, lastPlayer, loaded, created, arg, cacheVars>>

DifficultyProfileCall ==
    /\ arg.fn = "_difficulty_profile" /\ ~out.done
    /\ LET profile == DifficultyProfile(arg.difficulty, arg.engine_rating, arg.limit)
       IN out' = Returned([profile |-> profile, think_time |-> ThinkTime(profile, arg.limit)])
    /\ HelperFrame

\* two calls of _classify_delta
ClassifyDeltaCall ==
    /\ arg.fn = "_classify_delta" /\ ~out.done
    /\ out' = Returned(<<ClassifyDelta(arg.d1), ClassifyDelta(arg.d2)>>)
    /\ HelperFrame

BuildMoveInsightCall ==
    /\ arg.fn = "build_move_insight" /\ ~out.done
    /\ out' = Returned(MoveInsight(arg.mover_color, arg.side, arg.prev_eval_cp,
                                   arg.new_eval_cp, arg.themes))
    /\ HelperFrame

ComposeCommentaryCall ==
    /\ arg.fn = "_compose_commentary" /\ ~out.done
    /\ out' = Returned(ComposeCommentary(arg.side, arg.verdict, arg.delta_cp, arg.themes))
    /\ HelperFrame

DetectOpeningCall ==
    /\ arg.fn = "detect_opening" /\ ~out.done
    /\ out' = Returned(DetectOpening(arg.moves))
    /\ HelperFrame

HelperCalls ==
    ProfileCalls \cup ClassifyCalls \cup InsightCalls \cup CommentaryCalls \cup OpeningCalls

HelperInit ==
    /\ MMInit /\ ~useRedis /\ ~overlap
    /\ SessInit
    /\ ProcInit({DefaultSettings})
    /\ arg \in HelperCalls
    /\ out = Pending

HelperNext ==
    \/ DifficultyProfileCall
    \/ ClassifyDeltaCall
    \/ BuildMoveInsightCall
    \/ ComposeCommentaryCall
    \/ DetectOpeningCall

HelperSpec == HelperInit /\ [][HelperNext]_vars

\* C9: a persisted session that is completed has a result and a winner.
C9_CompletedHasOutcome ==
    \A s \in SessIds :
        db[s].status = "completed" => db[s].result # None /\ db[s].winner # None

\* C10: a session against the engine that is completed has had exactly one
\* rating delta applied: one at the transition, and none by a later request.
C10_OneRatingDelta ==
    \A s \in SessIds :
        (db[s].status = "completed" /\ ~db[s].is_multiplayer) => applied[s] = 1

\* the position reached from `board` by the moves of `move_log`, in order
RECURSIVE ReplayMoves(_, _)
ReplayMoves(board, move_log) ==
    IF move_log = <<>> THEN board
    ELSE ReplayMoves(ApplyUci(board, Head(move_log).uci), Tail(move_log))

\* C11: in every persisted record, applying the uci values of move_log in
\* order to initial_fen yields the record's fen.
C11_MoveLogReplaysToFen ==
    \A s \in SessIds :
        db[s] # NoSession => ReplayMoves(db[s].initial_fen, db[s].move_log) = db[s].fen

\* two accepted moves against the engine have been persisted
C11_Witness ==
    \E s \in SessIds :
        /\ ~db[s].is_multiplayer
        /\ Len(db[s].move_log) >= 4
        /\ db[s].fen # db[s].initial_fen

\* C12: in every persisted record the ply values of move_log are 1, 2, ..., n
\* in this order, n being the length of move_log: strictly increasing, with
\* no gap and no duplicate.
C12_PliesCountFromOne ==
    \A s \in SessIds :
        \A i \in 1..Len(db[s].move_log) : db[s].move_log[i].ply = i

\* a second move request was accepted while the first was still broadcasting
C12_Witness ==
    \E s \in SessIds :
        /\ Len(db[s].move_log) >= 4
        /\ \A t \in TaskIds : tasks[t] # NoTask

\* the step is the answer to a make_move request on session s
MoveAnswered(s) == nops' = nops + 1 /\ lastResp'.op = "make_move" /\ lastResp'.sid = s

\* C13: a SubmitMove that is answered 409 (not the player's turn, or no uci
\* while the engine is not to move) or 400 (promotion character, illegal
\* move) leaves every persisted record and rating as it was, has called no
\* analyzer and broadcasts no event.
C13_RejectedMoveChangesNothing ==
    [][\A s \in SessIds :
          (MoveAnswered(s) /\ lastResp'.code \in {400, 409})
          => /\ db' = db
             /\ ratings' = ratings
             /\ lastResp'.analyzer = 0
             /\ lastResp'.events = <<>>
             /\ tasks' = tasks
             /\ received' = received]_vars

\* a move was rejected on a session that has moves logged
C13_Witness ==
    /\ lastResp.op = "make_move"
    /\ lastResp.code = 409
    /\ \E s \in SessIds : lastResp.sid = s /\ Len(db[s].move_log) >= 2

Decided(board) == IsCheckmate(board) \/ IsStalemate(board)

\* C14: a SubmitMove on a single-player session whose position is checkmate
\* or stalemate is answered with an error, 410 when the analyzer was asked to
\* move, and leaves move_log, fen, result and winner as they were.
C14_NoMoveAfterGameOver ==
    [][\A s \in SessIds :
          (MoveAnswered(s) /\ db[s] # NoSession /\ ~db[s].is_multiplayer /\ Decided(db[s].fen))
          => /\ lastResp'.code \in {400, 409, 410}
             /\ lastResp'.analyzer > 0 => lastResp'.code = 410
             /\ db'[s].move_log = db[s].move_log
             /\ db'[s].fen = db[s].fen
             /\ db'[s].result = db[s].result
             /\ db'[s].winner = db[s].winner]_vars

\* the analyzer was asked to move in a decided position
C14_Witness ==
    /\ lastResp.op = "make_move"
    /\ lastResp.code = 410
    /\ \E s \in SessIds : lastResp.sid = s /\ Decided(db[s].fen)

\* Fool's mate, f2f3 e7e5 g2g4 d8h4: three moves that decide nothing and a
\* fourth that gives checkmate
FoolsMate == <<"quiet", "quiet", "quiet", "mate">>

\* the last answer is that of the SubmitMove that completed Fool's mate on s,
\* the player having white
FoolsMatePlayed(s) ==
    /\ lastResp.op = "make_move" /\ lastResp.sid = s /\ lastResp.code = 200
    /\ db[s].player_color = "white"
    /\ Len(db[s].move_log) = 4
    /\ \A i \in 1..4 :
          /\ db[s].move_log[i].uci = FoolsMate[i]
          /\ db[s].move_log[i].side = (IF i % 2 = 1 THEN "player" ELSE "engine")

\* C15 as stated: the SubmitMove that completes Fool's mate, the engine
\* mating the player, yields result checkmate, winner player, status
\* completed and a game_over broadcast.
C15_FoolsMateWonByPlayer ==
    \A s \in SessIds :
        FoolsMatePlayed(s)
        => /\ lastResp.result = "checkmate"
           /\ lastResp.winner = "player"
           /\ db[s].status = "completed"
           /\ \E i \in 1..Len(lastResp.events) : lastResp.events[i] = "game_over"

\* C15, amended: the SubmitMove that completes Fool's mate, the engine mating
\* the player, yields result checkmate, winner engine, status completed and
\* a game_over broadcast.
C15_FoolsMateWonByEngine ==
    \A s \in SessIds :
        FoolsMatePlayed(s)
        => /\ lastResp.result = "checkmate"
           /\ lastResp.winner = "engine"
           /\ db[s].status = "completed"
           /\ \E i \in 1..Len(lastResp.events) : lastResp.events[i] = "game_over"

C15_Witness == \E s \in SessIds : FoolsMatePlayed(s)

\* the messages that a request is sending, is going to send, or that a sink
\* has got
Msgs ==
    {tasks[t].msg : t \in TaskIds}
    \cup UNION {{tasks[t].rest[i] : i \in 1..Len(tasks[t].rest)} : t \in TaskIds}
    \cup UNION {{received[k][i] : i \in 1..Len(received[k])} : k \in Sinks}

GameOverMsgs == {m \in Msgs : m.type = "game_over"}

EngineMoveMsgs == {m \in Msgs : m.type = "engine_move"}

C18_EventsInStateMachineOrder ==
    \A k \in Sinks : \A i, j \in 1..Len(received[k]) :
        (/\ i < j
         /\ received[k][i].sid = received[k][j].sid
         /\ received[k][i].type \in {"engine_move", "game_over"}
         /\ received[k][j].type \in {"engine_move", "game_over"})
        => received[k][i].n <= received[k][j].n

\* how often m occurs in seq
Count(seq, m) == Cardinality({i \in 1..Len(seq) : seq[i] = m})

\* C19: of the broadcast that returned last, every sink of the snapshot whose
\* send succeeded has got the message exactly once and no sink outside the
\* snapshot has got it; every sink whose send failed is out of the session's
\* subscriber set and every other subscriber is still in it.  (That there is
\* such a broadcast says that it returned, whatever sends failed.)
C19_BroadcastOnSnapshot ==
    lastDone # NoDone
    => /\ \A k \in lastDone.snap \ lastDone.dead : Count(received[k], lastDone.msg) = 1
       /\ \A k \in Sinks \ lastDone.snap : Count(received[k], lastDone.msg) = 0
       /\ \A k \in lastDone.dead : k \notin lastDone.after
       /\ \A k \in lastDone.before \ lastDone.dead : k \in lastDone.after
       /\ lastDone.after \subseteq lastDone.before

\* a broadcast has returned with one send failed and one succeeded
C19_Witness ==
    /\ lastDone.dead # {}
    /\ lastDone.snap \ lastDone.dead # {}

\* sink k of the snapshot of request t waits behind the send in progress
Behind(t, k) == \E i \in 2..Len(tasks[t].order) : tasks[t].order[i] = k

\* C20: a sink that waits behind another sink of the snapshot, and that
\* itself accepts sends, is eventually sent to, also when the sink before it
\* never accepts the send; and every broadcast eventually returns.
C20_StalledSinkDelaysNoOther ==
    \A t \in TaskIds :
        /\ \A k \in Sinks :
              (Behind(t, k) /\ k \notin stalled) ~> (~Behind(t, k) \/ k \in stalled)
        /\ (tasks[t] # NoTask) ~> (tasks[t] = NoTask)

\* ====================================================================
\* Properties of the coach limiter, the analyzer, the clocks and creation
\* ====================================================================
\* both settings of the limiter are set
Configured ==
    settings.coach_rate_limit_window # 0 /\ settings.coach_rate_limit_max # 0

\* the coach call was let through by the limiter
Admitted(call) == call.code \in {200, 502}

\* how many of the first upto coach calls of session s were let through at a
\* time in [lo, hi]
AdmittedIn(s, lo, hi, upto) ==
    Cardinality({i \in 1..upto : /\ Admitted(coachCalls[s][i])
                                  /\ coachCalls[s][i].at >= lo
                                  /\ coachCalls[s][i].at <= hi})

\* the timestamps of the limiter that lie in the window that ends now
InWindow(timestamps) ==
    SelectSeq(timestamps, LAMBDA ts : ts >= now - settings.coach_rate_limit_window)

Inside == {t \in Threads : gw[t].pc \notin {"idle", "wait"}}

\* C22: at most one thread is inside a configure/play/analyse interaction
\* with the subprocess, whichever of the four callers it is in, and it holds
\* ENGINE_LOCK; at most one subprocess exists; and the subprocess that ENGINE
\* refers to is replaced only in a step of the thread that holds the lock.
C22_AnalyzerMutualExclusion ==
    /\ [](/\ Cardinality(Inside) <= 1
           /\ \A t \in Inside : ENGINE_LOCK = t
           /\ Cardinality(instances) <= 1)
    /\ [][ENGINE'.gen # ENGINE.gen
          => /\ ENGINE_LOCK # NoThread
             /\ ENGINE_LOCK' = ENGINE_LOCK
             /\ gw'[ENGINE_LOCK] # gw[ENGINE_LOCK]]_vars

\* a thread runs its command on a subprocess that it respawned, after a call
\* of another caller
C22_Witness ==
    \E t \in Threads :
        /\ gw[t].pc = "run"
        /\ gw[t].respawned
        /\ gwLast.by \notin {NoThread, t}
        /\ gwLast.op # gw[t].op

\* C23: a call of pick_engine_move, evaluate_position or analyze_position
\* that ends with the error of a terminated subprocess has respawned the
\* subprocess and tried again before.
C23_RespawnAndRetryOnce ==
    gwLast.op \in {"pick_engine_move", "evaluate_position", "analyze_position"}
    => (gwLast.outcome = "error" => gwLast.respawned)

\* C24: a play or analyse command of pick_engine_move, evaluate_position or
\* analyze_position that returned ran on a subprocess configured with the
\* caller's clamped skill, limit_strength and clamped nominal strength.
C24_ConfiguredBeforeEveryCommand ==
    (/\ gwLast.op \in {"pick_engine_move", "evaluate_position", "analyze_position"}
     /\ gwLast.outcome = "ok")
    => gwLast.conf = gwLast.want

\* the player_id that a multiplayer session assigns to the side to move
ExpectedPlayer(record) ==
    IF record.fen.turn = "w" THEN record.player_white_id ELSE record.player_black_id

\* C25: the position of a multiplayer session with both seats assigned
\* changes only in a move request that carries the player_id of the side to
\* move; a move request with another player_id, through either move
\* endpoint, is answered 403 and leaves fen, move_log and clocks as they were.
C25_OnlyTheSideToMoveMoves ==
    [][\A s \in SessIds :
         (/\ db[s].is_multiplayer
          /\ db[s].player_white_id # None
          /\ db[s].player_black_id # None)
         => /\ db'[s].fen # db[s].fen
               => /\ lastResp'.op \in {"make_move", "play_move"}
                  /\ lastResp'.sid = s
                  /\ lastPlayer' = ExpectedPlayer(db[s])
            /\ (/\ nops' # nops
                /\ lastResp'.op \in {"make_move", "play_move"}
                /\ lastResp'.sid = s
                /\ lastPlayer' # ExpectedPlayer(db[s]))
               => /\ lastResp'.code = 403
                  /\ db'[s].fen = db[s].fen
                  /\ db'[s].move_log = db[s].move_log
                  /\ db'[s].clocks = db[s].clocks]_vars

\* C26: an accepted multiplayer move takes max(0, now - updated_at), in
\* milliseconds, from the clock of the side that moved, not below 0, leaves
\* the other clock as it was, and sets updated_at to now.
C26_MoverClockCharged ==
    [][\A s \in SessIds :
         (/\ nops' # nops
          /\ lastResp'.op = "play_move"
          /\ lastResp'.sid = s
          /\ lastResp'.code = 200)
         => LET before == GetSession(s)
                elapsed == IF now > before.updated_at
                           THEN (now - before.updated_at) * 1000 ELSE 0
                left(ms) == IF ms > elapsed THEN ms - elapsed ELSE 0
            IN /\ db'[s].updated_at = now
               /\ IF before.fen.turn = "w"
                  THEN /\ db'[s].clocks.player_ms = left(before.clocks.player_ms)
                       /\ db'[s].clocks.engine_ms = before.clocks.engine_ms
                  ELSE /\ db'[s].clocks.engine_ms = left(before.clocks.engine_ms)
                       /\ db'[s].clocks.player_ms = before.clocks.player_ms]_vars

\* white has run out of time, black has been charged once, and both moved
C26_Witness ==
    \E s \in SessIds :
        /\ db[s].is_multiplayer
        /\ Len(db[s].move_log) >= 3
        /\ db[s].clocks.player_ms = 0
        /\ db[s].clocks.engine_ms = 200000

\* C27: both clocks of every persisted session are at least 0 and at most
\* the initial allotment plus an increment for each ply played.
C27_ClocksWithinBounds ==
    \A s \in SessIds :
        db[s] # NoSession
        => /\ db[s].clocks.player_ms >= 0
           /\ db[s].clocks.engine_ms >= 0
           /\ db[s].clocks.player_ms <= InitialMs + IncrementMs * Len(db[s].move_log)
           /\ db[s].clocks.engine_ms <= InitialMs + IncrementMs * Len(db[s].move_log)

\* C28: no committed update of a session row is lost: a row that is
\* completed stays completed, and the plies of a row are never taken away.
C28_NoLostUpdate ==
    [][\A s \in SessIds :
         /\ db[s].status = "completed" => db'[s].status = "completed"
         /\ Len(db'[s].move_log) >= Len(db[s].move_log)]_vars

\* ====================================================================
\* C29: create_session gives the session complementary colors (auto giving
\* the player white), status active, the standard starting position as fen
\* and initial_fen, an empty move_log and both clocks at initial_ms; its engine
\* settings come from the difficulty preset when the request names one, else
\* from engine_rating, else from engine_depth, else from the default.
SettingsOf(record) ==
    EngineSettings(record.engine_depth, record.engine_rating, record.difficulty)

FromPreset(preset) == EngineSettings(preset.depth, preset.rating, preset.name)

Nearest(preset, rating) ==
    \A other \in Presets :
        Abs(preset.rating - rating) <= Abs(other.rating - rating)

Prioritised(request, got) ==
    IF \E preset \in Presets : preset.name = request.difficulty
    THEN \E preset \in Presets :
            preset.name = request.difficulty /\ got = FromPreset(preset)
    ELSE IF request.engine_rating # Absent
    THEN /\ got.engine_rating = request.engine_rating
         /\ \E preset \in Presets :
               /\ Nearest(preset, request.engine_rating)
               /\ got.engine_depth = preset.depth
               /\ got.difficulty = preset.name
    ELSE IF request.engine_depth # Absent
    THEN /\ got.engine_depth = request.engine_depth
         /\ \E preset \in Presets :
               preset.depth = request.engine_depth /\ got = FromPreset(preset)
    ELSE got = EngineSettings(3, 2000, "advanced")

C29_CreatedSession ==
    [][\A s \in SessIds :
        created'[s] # created[s] =>
            LET request == created'[s]
                record == db'[s]
            IN /\ record.player_color \in {"white", "black"}
               /\ record.engine_color \in {"white", "black"}
               /\ record.player_color # record.engine_color
               /\ request.color = "auto" => record.player_color = "white"
               /\ request.color # "auto" => record.player_color = request.color
               /\ record.status = "active"
               /\ record.fen = DEFAULT_FEN
               /\ record.initial_fen = DEFAULT_FEN
               /\ record.move_log = <<>>
               /\ record.clocks = ClockState(InitialMs, InitialMs)
               /\ Prioritised(request, SettingsOf(record))
               /\ (request.color = "white" /\ request.difficulty = "beginner") =>
                     (record.engine_color = "black" /\ record.engine_rating = 1320)]_vars

C29_Witness ==
    \E s \in SessIds :
        /\ created[s] = CreateRequest("white", "beginner", 2800, 5)
        /\ db[s].engine_color = "black"
        /\ db[s].engine_rating = 1320
        /\ db[s].engine_depth = 1

\* C30: _score_to_cp gives 0 for a missing score, +10000 for a mate whose
\* distance is positive for white, -10000 for a mate whose distance is negative
\* for white (a mate in 1 reported with black to move included), and for a
\* centipawn score its value relative to white.
ForWhite(score) ==
    IF score.turn = "white" THEN score.relative.value ELSE 0 - score.relative.value

C30_ScoreFromWhitesView ==
    arg # NoArg =>
        /\ arg = NoScore => out = 0
        /\ (arg.relative.kind = "mate" /\ ForWhite(arg) > 0) => out = CHECKMATE_CP
        /\ (arg.relative.kind = "mate" /\ ForWhite(arg) < 0) => out = 0 - CHECKMATE_CP
        /\ arg.relative.kind = "cp" => out = ForWhite(arg)

C30_Witness ==
    /\ arg = PovScore(Mate(1), "black")
    /\ out = 0 - CHECKMATE_CP

\* the call of fn has returned
Called(fn) == arg.fn = fn /\ out.done

\* C31: the profile of a difficulty and a rating has the skill of the
\* difficulty's row (the custom row when the difficulty is unknown), the
\* rating as elo and the lesser of the global limit and the row's time as
\* move time; the think time of the call is that value, and 50 ms at least.
RowOf(difficulty) ==
    IF difficulty \in {"beginner", "intermediate", "advanced", "expert", "grandmaster"}
    THEN difficulty ELSE "custom"

C31_DifficultyProfile ==
    Called("_difficulty_profile") =>
        LET profile == out.value.profile
            row == RowOf(arg.difficulty)
            least == IF arg.limit <= MOVE_TIME_MS[row] THEN arg.limit ELSE MOVE_TIME_MS[row]
        IN /\ profile.skill = DIFFICULTY_SETTINGS[row]
           /\ profile.elo = arg.engine_rating
           /\ profile.move_time = least
           /\ out.value.think_time = (IF least >= 50 THEN least ELSE 50)
           /\ (arg.difficulty = "beginner" /\ arg.limit = 600) =>
                 (profile.skill = 1 /\ profile.move_time = 200)

C31_Witness ==
    /\ Called("_difficulty_profile")
    /\ arg.difficulty = "unknown" /\ arg.engine_rating = 1800 /\ arg.limit = 10
    /\ out.value.profile = [skill |-> 15, elo |-> 1800, move_time |-> 10]
    /\ out.value.think_time = 50

\* C32: the verdict is monotone in delta_cp: of two deltas the greater never
\* gets the lower verdict in the order blunder, mistake, inaccuracy, sharp,
\* good, great, brilliant.
VerdictRank(verdict) ==
    CASE verdict = "blunder" -> 1
      [] verdict = "mistake" -> 2
      [] verdict = "inaccuracy" -> 3
      [] verdict = "sharp" -> 4
      [] verdict = "good" -> 5
      [] verdict = "great" -> 6
      [] verdict = "brilliant" -> 7

C32_VerdictMonotone ==
    (Called("_classify_delta") /\ arg.d1 <= arg.d2) =>
        VerdictRank(out.value[1]) <= VerdictRank(out.value[2])

C32_Witness ==
    /\ Called("_classify_delta")
    /\ arg.d1 = 0 - 150 /\ arg.d2 = 150
    /\ out.value = <<"blunder", "brilliant">>

\* C33: the delta_cp of a ply annotation is the new evaluation minus the
\* previous one, negated when black moved, and its verdict is brilliant from
\* 150, great for 80..149, good for 30..79, sharp for -29..29, inaccuracy for
\* -79..-30, mistake for -149..-80 and blunder up to -150.
C33_DeltaAndVerdict ==
    Called("build_move_insight") =>
        LET d == out.value.delta_cp
            v == out.value.verdict
        IN /\ arg.mover_color = "white" => d = arg.new_eval_cp - arg.prev_eval_cp
           /\ arg.mover_color = "black" => d = arg.prev_eval_cp - arg.new_eval_cp
           /\ v = "brilliant" <=> d >= 150
           /\ v = "great" <=> d \in 80..149
           /\ v = "good" <=> d \in 30..79
           /\ v = "sharp" <=> d \in (0 - 29)..29
           /\ v = "inaccuracy" <=> d \in (0 - 79)..(0 - 30)
           /\ v = "mistake" <=> d \in (0 - 149)..(0 - 80)
           /\ v = "blunder" <=> d <= 0 - 150

C33_Witness ==
    /\ Called("build_move_insight")
    /\ arg.mover_color = "black" /\ arg.prev_eval_cp = 40 /\ arg.new_eval_cp = 0 - 110
    /\ out.value.delta_cp = 150
    /\ out.value.verdict = "brilliant"

\* C34: the commentary of a ply annotation begins with "You " when its side is
\* player and with "The engine " when its side is engine, for every verdict
\* and every list of themes.
BeginsWith(commentary, actor) == Len(commentary) >= 2 /\ commentary[1] = actor

C34_CommentaryNamesTheMover ==
    /\ Called("_compose_commentary") =>
          /\ arg.side = "player" => BeginsWith(out.value, "You")
          /\ arg.side = "engine" => BeginsWith(out.value, "The engine")
    /\ Called("build_move_insight") =>
          /\ arg.side = "player" => BeginsWith(out.value.commentary, "You")
          /\ arg.side = "engine" => BeginsWith(out.value.commentary, "The engine")

C34_Witness ==
    /\ Called("_compose_commentary")
    /\ arg.side = "player" /\ arg.verdict = "unknown" /\ arg.themes = <<"zwischenzug", "passed pawn">>
    /\ out.value = <<"You", "made a practical choice.",
                     "Put rooks behind the passer and march it confidently.">>

\* C36: once the persisted status of a session is completed or abandoned, no
\* operation changes its status, result, winner, fen or move_log.
C36_TerminalStatesAbsorbing ==
    [][\A s \in SessIds :
         db[s].status \in {"completed", "abandoned"}
         => /\ db'[s].status = db[s].status
            /\ db'[s].result = db[s].result
            /\ db'[s].winner = db[s].winner
            /\ db'[s].fen = db[s].fen
            /\ db'[s].move_log = db[s].move_log]_vars

\* C37: when every call of the repository has finished, get_session returns
\* the last committed state of the row: a live cache entry is the row as it
\* was committed last; and no entry of the in-memory cache is returned after
\* its time to live has run out.
Quiet == \A t \in Threads : repo[t] = IdleRepo

C37_CacheCoherence ==
    /\ [](Quiet => \A s \in SessIds : CacheLive(s) => cache[s] = db[s])
    /\ [][(lastGet' # lastGet /\ lastGet'.cached)
            => lastGet'.at <= lastGet'.expires_at]_vars

\* C38: two players are paired only if the entry the queued one has at that
\* time is in the requester's bucket, and, between requests, a player has at
\* most one queue entry over all buckets, in the list of the bucket its entry
\* names and the same in both backends; also after a player that is queued
\* has enqueued again, in the same or in another bucket.
ListedIn(p, b) == {i \in 1..Len(rList[b]) : rList[b][i] = p}

\* the buckets whose list names p (a list that names p twice counts once)
Listings(p) == {b \in Buckets : ListedIn(p, b) # {}}

C38_OneEntryInOneBucket ==
    /\ \A i \in 1..Len(mmSessions) : mmSessions[i].opp_queued
    /\ (\A t \in Threads : Free(t))
       => \A p \in Players :
            /\ Cardinality(Listings(p)) <= 1
            /\ \A b \in Buckets :
                  (ListedIn(p, b) # {} /\ rEntry[p] # NoEntry) => rEntry[p].bucket = b
            /\ (QHas(matchmaking_queue, p) /\ rEntry[p] # NoEntry)
                  => QGet(matchmaking_queue, p).bucket = rEntry[p].bucket

\* C39: a call of the analyzer gives the lock back when it returns and on
\* every path on which it fails, so a thread that is in no call holds no lock,
\* and every caller that waits for the lock eventually has it.
C39_LockAlwaysReleased ==
    /\ [](\A t \in Threads : gw[t].pc \in {"idle", "wait"} => ENGINE_LOCK # t)
    /\ \A t \in Threads : (gw[t].pc = "wait") ~> (ENGINE_LOCK = t)

\* a caller that found the lock taken has it, after the call before it failed
C39_Witness ==
    \E t \in Threads :
        /\ ENGINE_LOCK = t
        /\ gw[t].queued
        /\ gwLast.outcome = "failed"
        /\ gwLast.by \notin {NoThread, t}

\* C40: when a player resigns a multiplayer session, the session is completed
\* with result resigned and the winner is the color of the other player.
C40_ResignWinnerIsTheOpponent ==
    [][\A s \in SessIds :
         (/\ nops' # nops
          /\ lastResp'.op = "resign" /\ lastResp'.sid = s /\ lastResp'.code = 200)
         => /\ db'[s].status = "completed"
            /\ db'[s].result = "resigned"
            /\ lastPlayer' = "white" => db'[s].winner = "black"
            /\ lastPlayer' = "black" => db'[s].winner = "white"]_vars

\* C35: detect_opening is a longest-prefix match: it returns an entry of the
\* book only if the entry's whole UCI sequence is a prefix of the moves, it
\* returns the longest such entry, and it returns none when no sequence of the
\* book is a prefix of the moves, as for the empty list of a new session.
IsPrefix(seq, moves) == Len(seq) <= Len(moves) /\ SubSeq(moves, 1, Len(seq)) = seq

BookLines == {OPENINGS[i] : i \in DOMAIN OPENINGS}

C35_LongestPrefixMatch ==
    Called("detect_opening") =>
        LET played == {entry \in BookLines : IsPrefix(entry.uci, arg.moves)}
        IN /\ out.value # NoOpening => out.value \in played
           /\ \A entry \in played : Len(entry.uci) <= Len(out.value.uci)
           /\ played = {} => out.value = NoOpening

\* ====================================================================
\* Properties of the matchmaking queue
\* ====================================================================
SessionsOf(p) == {i \in 1..Len(mmSessions) : p \in {mmSessions[i].requester, mmSessions[i].opponent}}

\* the notifications queue_status would hand to p, were it polled again and again
Consumable(p) ==
    (IF useRedis /\ rMatch[p] # NoPayload THEN {<<"redis", rMatch[p]>>} ELSE {})
    \cup (IF matched_sessions[p] # NoPayload THEN {<<"dict", matched_sessions[p]>>} ELSE {})

Complementary(c, d) == (c = "white" /\ d = "black") \/ (c = "black" /\ d = "white")

\* "compatible" as the specification words it
BothAutoOrComplementary(c, d) == (c = "auto" /\ d = "auto") \/ Complementary(c, d)

\* C1: two players that call join_queue at the same time, in the same bucket:
\* with compatible colours exactly one session is created and each player has
\* exactly one notification to consume; with the same specific colour both
\* stay queued.
C1_ConcurrentEnqueuePairsOnce ==
    \A t, u \in Threads :
        ( /\ t # u
          /\ nreq = 2
          /\ pc[t] = "done" /\ pc[u] = "done"
          /\ loc[t].op = "join" /\ loc[u].op = "join"
          /\ loc[t].player # loc[u].player
          /\ loc[t].bucket = loc[u].bucket )
        => /\ BothAutoOrComplementary(loc[t].color, loc[u].color)
              => /\ Len(mmSessions) = 1
                 /\ Cardinality(Consumable(loc[t].player)) = 1
                 /\ Cardinality(Consumable(loc[u].player)) = 1
           /\ (loc[t].color = loc[u].color /\ loc[t].color # "auto")
              => /\ Len(mmSessions) = 0
                 /\ QHas(matchmaking_queue, loc[t].player)
                 /\ QHas(matchmaking_queue, loc[u].player)

\* C2: a player who called join_queue once is in at most one session.
C2_EnqueuedOncePairedOnce ==
    \A p \in Players : enqCalls[p] = 1 => Cardinality(SessionsOf(p)) <= 1

\* C3: queue_status returns matched at most once per player and session.
C3_NotifiedAtMostOnce ==
    \A p \in Players : \A s \in SessionIds : delivered[p][s] <= 1

\* C4: in every session created by join_queue the player notified white is
\* player_white_id and the player notified black is player_black_id.
C4_SessionAgreesWithNotifications ==
    \A i \in 1..Len(mmSessions) :
        LET s == mmSessions[i]
            notified_white == IF s.req_color = "white" THEN s.requester ELSE s.opponent
            notified_black == IF s.req_color = "black" THEN s.requester ELSE s.opponent
        IN s.player_white_id = notified_white /\ s.player_black_id = notified_black

C6_PairsQueuedEntryOfSameBucket ==
    \A i \in 1..Len(mmSessions) :
        /\ mmSessions[i].requester # mmSessions[i].opponent
        /\ mmSessions[i].opp_queued

\* C7: queue_status answers matched only when a stored notification is
\* pending, queued only when none is and the player is queued, and none only
\* when neither is the case.
C7_StatusAnswer ==
    \A t \in Threads :
        (pc[t] = "done" /\ loc[t].op = "status")
        => /\ loc[t].resp.status = "matched" => loc[t].g_notif
           /\ loc[t].resp.status = "queued" => ~loc[t].g_notif /\ loc[t].g_queued
           /\ loc[t].resp.status = "none" => ~loc[t].g_notif /\ ~loc[t].g_queued

\* C8: once leave_queue(p) has returned, and until p calls join_queue again,
\* p has no queue entry, is in no bucket list and has no notification in
\* either backend: queue_status answers none and no join_queue finds p.
C8_GoneAfterDequeue ==
    \A p \in Players :
        leftQ[p]
        => /\ ~QHas(matchmaking_queue, p)
           /\ matched_sessions[p] = NoPayload
           /\ rEntry[p] = NoEntry
           /\ rMatch[p] = NoPayload
           /\ \A b \in Buckets : \A k \in 1..Len(rList[b]) : rList[b][k] # p

====
